---- MODULE Spec2Model ----
(***************************************************************************)
(* Leasing-sales assistant: response normalization and bounded dispatch.   *)
(*                                                                         *)
(* Text is modelled as a sequence of tokens.  A token [t, s, n] is a run   *)
(* of n characters of kind t; s names its content.  Every string operation *)
(* of the source (len, slicing, strip, split, startswith, regex search,    *)
(* json.loads, json.dumps) is modelled on token sequences with character   *)
(* counts kept, so that the program's numeric limits keep their values.    *)
(***************************************************************************)
EXTENDS Integers, Sequences, FiniteSets, TLC

(***************************************************************************)
(* Tokens and texts                                                         *)
(***************************************************************************)
Tok(t, s, n) == [t |-> t, s |-> s, n |-> n]

\* Python len(text): the sum of the tokens' character counts over x[lo..hi]
RECURSIVE LenRange(_, _, _)
LenRange(x, lo, hi) ==
    IF lo > hi THEN 0
    ELSE IF lo = hi THEN x[lo].n
    ELSE LET mid == (lo + hi) \div 2 IN LenRange(x, lo, mid) + LenRange(x, mid + 1, hi)
TLen(x) == LenRange(x, 1, Len(x))

\* the number of leading tokens that fit whole into the first k characters
WholeTokens(x, k) ==
    CHOOSE m \in 0..Len(x) :
        /\ LenRange(x, 1, m) <= k
        /\ m = Len(x) \/ LenRange(x, 1, m + 1) > k

\* Python text[:k]; a token cut in two becomes a "part" token
Take(x, k) ==
    IF k <= 0 THEN <<>>
    ELSE LET m == WholeTokens(x, k)
             rem == k - LenRange(x, 1, m)
         IN SubSeq(x, 1, m)
            \o (IF m < Len(x) /\ rem > 0 THEN <<Tok("part", x[m + 1].s, rem)>> ELSE <<>>)

\* Python text[k:]
Drop(x, k) ==
    IF k <= 0 THEN x
    ELSE LET m == WholeTokens(x, k)
             rem == k - LenRange(x, 1, m)
         IN IF m = Len(x) THEN <<>>
            ELSE IF rem = 0 THEN SubSeq(x, m + 1, Len(x))
            ELSE <<Tok("part", x[m + 1].s, x[m + 1].n - rem)>> \o SubSeq(x, m + 2, Len(x))

IsSpace(tk) == tk.t \in {"ws", "nl"}

\* Python text.strip()
RECURSIVE LStrip(_)
LStrip(x) == IF x # <<>> /\ IsSpace(Head(x)) THEN LStrip(Tail(x)) ELSE x
RECURSIVE RStrip(_)
RStrip(x) ==
    IF x # <<>> /\ IsSpace(x[Len(x)]) THEN RStrip(SubSeq(x, 1, Len(x) - 1)) ELSE x
Strip(x) == RStrip(LStrip(x))

\* the smallest element of a non-empty set of positions
MinOf(S) == CHOOSE j \in S : \A k \in S : j <= k

\* an assignment followed by the code that reads the variable: val is
\* computed once and Body is evaluated with the variable bound to it
Only(S) == CHOOSE v \in S : TRUE
Let(val, Body(_)) == Only({Body(v) : v \in {val}})

\* index of the first token at or after position i that is the marker p
\* (same kind and content), 0 when none: text.find(marker)
FindTok(x, p, i) ==
    LET S == {j \in i..Len(x) : x[j].t = p.t /\ x[j].s = p.s} IN
    IF S = {} THEN 0 ELSE MinOf(S)

\* marker in text
Contains(x, p) == FindTok(x, p, 1) # 0

\* Python text.split(marker) for a marker that is one token: the pieces
\* between the marker's occurrences, in order
SplitOn(x, p) ==
    LET P == {j \in 1..Len(x) : x[j].t = p.t /\ x[j].s = p.s}
        \* position of the j-th occurrence; 0 before the first, Len+1 after the last
        pos(j) == IF j = 0 THEN 0
                  ELSE IF j > Cardinality(P) THEN Len(x) + 1
                  ELSE CHOOSE q \in P : Cardinality({r \in P : r < q}) = j - 1
    IN [j \in 1..(Cardinality(P) + 1) |-> SubSeq(x, pos(j - 1) + 1, pos(j) - 1)]

\* Python text[i:j]
Slice(x, i, j) == Take(Drop(x, i), j - i)

\* the concatenation of the texts xs[lo..hi]
RECURSIVE ConcatRange(_, _, _)
ConcatRange(xs, lo, hi) ==
    IF lo > hi THEN <<>>
    ELSE IF lo = hi THEN xs[lo]
    ELSE LET mid == (lo + hi) \div 2 IN
         ConcatRange(xs, lo, mid) \o ConcatRange(xs, mid + 1, hi)
Concat(xs) == ConcatRange(xs, 1, Len(xs))

(***************************************************************************)
(* JSON values.  Every value has the same record shape so that values of   *)
(* different JSON types can be compared: ty is the JSON type, s and n the  *)
(* content and character count of a string or number, items the members of *)
(* an object ([k, v] pairs, insertion order) or elements of an array.      *)
(***************************************************************************)
JStr(s, n) == [ty |-> "str", s |-> s, n |-> n, items |-> <<>>]
JObj(items) == [ty |-> "obj", s |-> "", n |-> 0, items |-> items]
JArr(items) == [ty |-> "arr", s |-> "", n |-> 0, items |-> items]
KV(k, v) == [k |-> k, v |-> v]
Elem(v) == [k |-> "", v |-> v]
JEmptyObj == JObj(<<>>)
JEmptyArr == JArr(<<>>)
\* Python None, and the marker of a raised exception
JNone == [ty |-> "none", s |-> "", n |-> 0, items |-> <<>>]

IsDict(v) == v.ty = "obj"
IsList(v) == v.ty = "arr"
IsStrV(v) == v.ty = "str"

\* key in d
HasKey(d, k) == \E i \in 1..Len(d.items) : d.items[i].k = k
Keys(d) == {d.items[i].k : i \in 1..Len(d.items)}
\* d[k] for a key that is present
Lookup(d, k) == d.items[CHOOSE i \in 1..Len(d.items) : d.items[i].k = k].v
\* d.get(k, default)
Get(d, k, default) == IF HasKey(d, k) THEN Lookup(d, k) ELSE default
\* d[k] = v (an existing key keeps its position)
SetKey(d, k, v) ==
    IF HasKey(d, k)
    THEN JObj([i \in 1..Len(d.items) |->
                 IF d.items[i].k = k THEN KV(k, v) ELSE d.items[i]])
    ELSE JObj(Append(d.items, KV(k, v)))
\* Python truthiness of a value
Truthy(v) ==
    CASE v.ty = "none" -> FALSE
      [] v.ty = "str" -> v.n > 0
      [] v.ty = "num" -> v.s # "0"
      [] OTHER -> Len(v.items) > 0

(***************************************************************************)
(* json.dumps: the character stream of a value.  A string is one "str"     *)
(* token of its content plus the two quotes; separators are ", " and ": ". *)
(***************************************************************************)
\* content named quoted starts with a double quote, which json.dumps escapes
EscLen(s) == IF s = "quoted" THEN 1 ELSE 0
StrTok(s, n) == Tok("str", s, n + 2 + EscLen(s))
Sp == Tok("ws", " ", 1)

RECURSIVE Dumps(_)
RECURSIVE DumpItems(_, _)
Dumps(v) ==
    CASE v.ty = "str" -> <<StrTok(v.s, v.n)>>
      [] v.ty = "num" -> <<Tok("num", v.s, v.n)>>
      [] v.ty = "none" -> <<Tok("null", "null", 4)>>
      [] v.ty = "obj" ->
            <<Tok("lb", "{", 1)>> \o DumpItems(v.items, TRUE) \o <<Tok("rb", "}", 1)>>
      [] v.ty = "arr" ->
            <<Tok("ls", "[", 1)>> \o DumpItems(v.items, FALSE) \o <<Tok("rs", "]", 1)>>
DumpItems(items, keyed) ==
    IF items = <<>> THEN <<>>
    ELSE (IF keyed
          THEN <<StrTok(Head(items).k, Len(Head(items).k)), Tok("colon", ":", 1), Sp>>
          ELSE <<>>)
         \o Dumps(Head(items).v)
         \o (IF Len(items) > 1 THEN <<Tok("comma", ",", 1), Sp>> ELSE <<>>)
         \o DumpItems(Tail(items), keyed)

(***************************************************************************)
(* json.loads: a recursive-descent parse of the token stream.  A parse     *)
(* step returns [ok, v, i]: whether a value was read, the value, and the   *)
(* position after it.                                                       *)
(***************************************************************************)
RECURSIVE SkipWs(_, _)
SkipWs(x, i) == IF i <= Len(x) /\ IsSpace(x[i]) THEN SkipWs(x, i + 1) ELSE i

PFail == [ok |-> FALSE, v |-> JNone, i |-> 0]
POk(v, i) == [ok |-> TRUE, v |-> v, i |-> i]
IsTok(x, i, t) == i <= Len(x) /\ x[i].t = t

RECURSIVE ParseValue(_, _)
RECURSIVE ParseMembers(_, _, _)
RECURSIVE ParseElements(_, _, _)
ParseValue(x, i0) ==
    LET i == SkipWs(x, i0) IN
    IF i > Len(x) THEN PFail
    ELSE CASE x[i].t = "str" -> POk(JStr(x[i].s, x[i].n - 2 - EscLen(x[i].s)), i + 1)
           [] x[i].t = "num" -> POk([ty |-> "num", s |-> x[i].s, n |-> x[i].n,
                                     items |-> <<>>], i + 1)
           [] x[i].t = "null" -> POk(JNone, i + 1)
           [] x[i].t = "lb" ->
                 LET j == SkipWs(x, i + 1) IN
                 IF IsTok(x, j, "rb") THEN POk(JEmptyObj, j + 1)
                 ELSE ParseMembers(x, j, JEmptyObj)
           [] x[i].t = "ls" ->
                 LET j == SkipWs(x, i + 1) IN
                 IF IsTok(x, j, "rs") THEN POk(JEmptyArr, j + 1)
                 ELSE ParseElements(x, j, <<>>)
           [] OTHER -> PFail
\* members of an object from position i (at a key), acc the object so far
ParseMembers(x, i0, acc) ==
    LET i == SkipWs(x, i0) IN
    IF ~IsTok(x, i, "str") THEN PFail
    ELSE LET c == SkipWs(x, i + 1) IN
         IF ~IsTok(x, c, "colon") THEN PFail
         ELSE LET r == ParseValue(x, c + 1) IN
              IF ~r.ok THEN PFail
              ELSE LET d == SetKey(acc, x[i].s, r.v)
                       j == SkipWs(x, r.i) IN
                   IF IsTok(x, j, "rb") THEN POk(d, j + 1)
                   ELSE IF IsTok(x, j, "comma") THEN ParseMembers(x, j + 1, d)
                   ELSE PFail
ParseElements(x, i0, acc) ==
    LET r == ParseValue(x, i0) IN
    IF ~r.ok THEN PFail
    ELSE LET a == Append(acc, Elem(r.v))
             j == SkipWs(x, r.i) IN
         IF IsTok(x, j, "rs") THEN POk(JArr(a), j + 1)
         ELSE IF IsTok(x, j, "comma") THEN ParseElements(x, j + 1, a)
         ELSE PFail

\* json.loads(text): [ok |-> FALSE] stands for json.JSONDecodeError
json_loads(x) ==
    LET r == ParseValue(x, 1) IN
    IF r.ok /\ SkipWs(x, r.i) = Len(x) + 1 THEN POk(r.v, r.i) ELSE PFail


(***************************************************************************)
(* json.dumps(value, indent=2): members one per line, nested by two spaces *)
(***************************************************************************)
Nl == Tok("nl", "\n", 1)
Indent(lvl) == IF lvl = 0 THEN <<Nl>> ELSE <<Nl, Tok("ws", " ", 2 * lvl)>>

RECURSIVE DumpsIndent(_, _)
RECURSIVE DumpItemsIndent(_, _, _)
DumpsIndent(v, lvl) ==
    CASE v.ty \in {"obj", "arr"} /\ v.items = <<>> -> Dumps(v)
      [] v.ty = "obj" /\ v.items # <<>> ->
            <<Tok("lb", "{", 1)>> \o DumpItemsIndent(v.items, TRUE, lvl + 1)
            \o Indent(lvl) \o <<Tok("rb", "}", 1)>>
      [] v.ty = "arr" /\ v.items # <<>> ->
            <<Tok("ls", "[", 1)>> \o DumpItemsIndent(v.items, FALSE, lvl + 1)
            \o Indent(lvl) \o <<Tok("rs", "]", 1)>>
      [] OTHER -> Dumps(v)
DumpItemsIndent(items, keyed, lvl) ==
    IF items = <<>> THEN <<>>
    ELSE Indent(lvl)
         \o (IF keyed
             THEN <<StrTok(Head(items).k, Len(Head(items).k)), Tok("colon", ":", 1), Sp>>
             ELSE <<>>)
         \o DumpsIndent(Head(items).v, lvl)
         \o (IF Len(items) > 1 THEN <<Tok("comma", ",", 1)>> ELSE <<>>)
         \o DumpItemsIndent(Tail(items), keyed, lvl)

(***************************************************************************)
(* re.search for a quoted key, optional blanks, a colon, optional blanks    *)
(* and a quoted run of non-quote characters: the first complete string     *)
(* that follows the key.  [found, v]: v is the captured group.             *)
(***************************************************************************)
SearchKeyString(x, key, i, blankBeforeColon) ==
    LET colon(k) == IF blankBeforeColon THEN SkipWs(x, k + 1) ELSE k + 1
        value(k) == SkipWs(x, colon(k) + 1)
        S == {k \in i..Len(x) :
                /\ x[k].t = "str" /\ x[k].s = key
                /\ IsTok(x, colon(k), "colon")
                /\ IsTok(x, value(k), "str")}
    IN IF S = {} THEN [found |-> FALSE, v |-> JNone]
       ELSE LET j == value(MinOf(S)) IN
            [found |-> TRUE,
             v |-> IF x[j].s = "quoted" THEN JStr("backslash", 1)
                   ELSE JStr(x[j].s, x[j].n - 2)]

\* the message pattern: no blank is allowed between the key and its colon
search_message(x) == SearchKeyString(x, "message", 1, FALSE)


(***************************************************************************)
(* Report texts.  Lit(n) is a run of n characters of a template literal,   *)
(* Txt content supplied by a value.  The markers the dispatcher splits on  *)
(* are tokens of their own.  Character counts are those of the literals in *)
(* the source file.                                                         *)
(***************************************************************************)
Lit(n) == Tok("lit", "lit", n)
\* the DETAILED AGENT THINKING PROCESS marker of the main-report split
MarkTok == Tok("MARK", "MARK", 40)
\* the Client Analysis title in bold
CaTok == Tok("CA", "CA", 20)
\* the rule of thirty box characters that separates report sections
SepTok == Tok("SEP", "SEP", 90)
\* the CLIENT ANALYSIS and INVENTORY EVALUATION titles of the technical report
UcaTok == Tok("UCA", "UCA", 20)
UieTok == Tok("UIE", "UIE", 25)
\* the json-tagged opening fence (three backticks and the tag) and the bare fence
FenceJson == Tok("fj", "fence_json", 7)
Fence == Tok("f", "fence", 3)

RECURSIVE Digits(_)
Digits(k) == IF k < 10 THEN 1 ELSE 1 + Digits(k \div 10)
Num(k) == Tok("txt", "number", Digits(k))

\* The characters of a string value.  Content named report_markers is
\* model output that itself contains the markers of the main report.
ContentText(v) ==
    IF v.n = 0 THEN <<>>
    ELSE IF v.s = "report_markers" /\ v.n > 290
    THEN <<Tok("txt", "pre", 10), MarkTok, Tok("txt", "intro", 10), CaTok,
           Tok("txt", "sec1", 10), SepTok, Tok("txt", "sec2", v.n - 290),
           SepTok, Tok("txt", "sec3", 20)>>
    ELSE <<Tok("txt", v.s, v.n)>>

\* str(value) as interpolated by an f-string
Str(v) == IF v.ty = "str" THEN ContentText(v)
          ELSE <<Tok("txt", "repr", TLen(Dumps(v)))>>
\* d.get(k, default) interpolated, the default a literal of n characters
Field(d, k, n) == Str(Get(d, k, JStr("default", n)))

\* len(value): raises TypeError for a number or None
LenRaises(v) == v.ty \in {"num", "none"}
PyLen(v) == IF v.ty = "str" THEN v.n ELSE Len(v.items)

(***************************************************************************)
(* InventoryAgent.get_verbose_logs_summary: the last 50 entries joined by  *)
(* newlines inside a fenced block.  verbose_logs holds each entry's length.*)
(***************************************************************************)
RECURSIVE SumRange(_, _, _)
SumRange(q, lo, hi) ==
    IF lo > hi THEN 0
    ELSE IF lo = hi THEN q[lo]
    ELSE LET mid == (lo + hi) \div 2 IN SumRange(q, lo, mid) + SumRange(q, mid + 1, hi)
SumSeq(q) == SumRange(q, 1, Len(q))

get_verbose_logs_summary(logs) ==
    IF logs = <<>> THEN <<Tok("txt", "nologs", 25)>>
    ELSE LET recent == IF Len(logs) > 50 THEN SubSeq(logs, Len(logs) - 49, Len(logs))
                       ELSE logs
         IN <<Lit(26), Tok("txt", "logs", SumSeq(recent) + Len(recent) - 1), Lit(4)>>

\* one log entry: timestamp in brackets, level, colon, message of m characters
LogLine(level, m) == 11 + Len(level) + 2 + m
\* InventoryAgent.verbose_log for a batch of <<level, m>> entries
verbose_log(logs, verbose_on, entries) ==
    IF ~verbose_on THEN logs
    ELSE logs \o [i \in 1..Len(entries) |-> LogLine(entries[i][1], entries[i][2])]

(***************************************************************************)
(* InventoryAgent.format_discord_message                                   *)
(***************************************************************************)
ThinkingKeys == <<"client_analysis", "inventory_evaluation", "property_ranking",
                  "selection_reasoning", "duplicate_check">>
\* the five section titles; the first one contains the Client Analysis marker
SectionTitle(i) ==
    CASE i = 1 -> <<Lit(5), CaTok>>
      [] i = 2 -> <<Lit(30)>>
      [] i = 3 -> <<Lit(26)>>
      [] i = 4 -> <<Lit(29)>>
      [] i = 5 -> <<Lit(24)>>

\* content[:200] plus an ellipsis if len(content) > 200 else content
Summary200(content) ==
    IF content.ty = "str" /\ content.n > 200
    THEN Take(ContentText(content), 200) \o <<Lit(3)>>
    ELSE Str(content)

RECURSIVE FdmSections(_, _)
FdmSections(thinking, i) ==
    IF i > 5 THEN <<>>
    ELSE <<Lit(1)>> \o SectionTitle(i) \o <<Lit(1)>>
         \o Summary200(Get(thinking, ThinkingKeys[i], JStr("default", 20)))
         \o <<Lit(2)>> \o FdmSections(thinking, i + 1)

FdmOption(prop, i) ==
    LET base_rent == Get(prop, "base_rent", Get(prop, "price", JStr("N/A", 3)))
        net_effective == Get(prop, "net_effective_rent", JStr("N/A", 3))
        move_in_special == Get(prop, "move_in_special", JStr("None", 4))
    IN <<Lit(10), Num(i), Lit(2)>> \o Field(prop, "address", 15)
       \o <<Lit(25)>> \o Field(prop, "neighborhood", 3)
       \o <<Lit(17)>> \o Str(base_rent) \o <<Lit(1)>>
       \o (IF Truthy(net_effective) /\ net_effective # JStr("N/A", 3)
              /\ net_effective # base_rent
           THEN <<Lit(20)>> \o Str(net_effective) \o <<Lit(1)>> ELSE <<>>)
       \o (IF Truthy(move_in_special) /\ move_in_special # JStr("None", 4)
           THEN <<Lit(14)>> \o Str(move_in_special) \o <<Lit(1)>> ELSE <<>>)
       \o <<Lit(12)>> \o Field(prop, "specs", 3)
       \o <<Lit(17)>> \o Field(prop, "proximity_score", 3)
       \o <<Lit(18)>> \o Field(prop, "budget_fit", 3)
       \o <<Lit(16)>> \o Field(prop, "ranking", 3)
       \o <<Lit(11)>> \o Field(prop, "pros", 3) \o <<Lit(1)>>
       \o (IF Truthy(Get(prop, "cons", JNone))
           THEN <<Lit(10)>> \o Str(Lookup(prop, "cons")) \o <<Lit(1)>> ELSE <<>>)
       \o <<Lit(1)>>

RECURSIVE FdmOptions(_, _)
FdmOptions(matches, i) ==
    IF i > Len(matches.items) \/ i > 3 THEN <<>>
    ELSE FdmOption(matches.items[i].v, i) \o FdmOptions(matches, i + 1)

FdmSelected(selected) ==
    LET base_rent == Get(selected, "base_rent", Get(selected, "price", JStr("N/A", 3)))
        net_effective == Get(selected, "net_effective_rent", JStr("N/A", 3))
        savings_details == Get(selected, "savings_details", JStr("N/A", 3))
    IN <<SepTok, Lit(54)>> \o Field(selected, "address", 3)
       \o <<Lit(27)>> \o Field(selected, "neighborhood", 3)
       \o <<Lit(21)>> \o Str(base_rent) \o <<Lit(1)>>
       \o (IF Truthy(net_effective) /\ net_effective # JStr("N/A", 3)
              /\ net_effective # base_rent
           THEN <<Lit(24)>> \o Str(net_effective) \o <<Lit(1)>> ELSE <<>>)
       \o (IF Truthy(savings_details) /\ savings_details # JStr("N/A", 3)
           THEN <<Lit(18)>> \o Str(savings_details) \o <<Lit(1)>> ELSE <<>>)
       \o <<Lit(18)>> \o Field(selected, "move_in_date", 3)
       \o <<Lit(23)>> \o Field(selected, "key_features", 3)
       \o <<Lit(30)>> \o Field(selected, "proximity_advantage", 3) \o <<Lit(1)>>
       \o (IF Truthy(Get(selected, "special_offers", JNone))
           THEN <<Lit(25)>> \o Str(Lookup(selected, "special_offers")) \o <<Lit(1)>>
           ELSE <<>>)

\* every element that the loop over matches[:3] visits is a dict
OptionsAreDicts(matches) ==
    /\ matches.ty = "arr"
    /\ \A i \in 1..Len(matches.items) : i <= 3 => IsDict(matches.items[i].v)

\* whether format_discord_message raises (a .get on a non-dict, len of a number)
fdm_raises(analysis) ==
    \/ ~IsDict(analysis)
    \/ LET thinking == Get(analysis, "thinking_process", JEmptyObj)
           matches == Get(analysis, "property_matches", JEmptyArr)
           selected == Get(analysis, "selected_property", JEmptyObj)
       IN \/ ~IsDict(thinking)
          \/ \E i \in 1..5 :
                LenRaises(Get(thinking, ThinkingKeys[i], JStr("default", 20)))
          \/ Truthy(matches) /\ ~OptionsAreDicts(matches)
          \/ Truthy(selected) /\ ~IsDict(selected)

\* fields of the client entry of client_data: name and id as interpolated
ClientName(client_data) ==
    IF client_data.found THEN Tok("txt", "fullname", client_data.fullname_n)
    ELSE Tok("txt", "Unknown Client", 14)
ClientIdText(client_data) ==
    IF client_data.found THEN Tok("txt", "client_id", client_data.id_n)
    ELSE Tok("txt", "N/A", 3)
FubLink(client_data) ==
    IF client_data.found THEN Tok("txt", "fub_link", 43 + client_data.id_n)
    ELSE Tok("txt", "FUB link not available", 22)

format_discord_message(analysis, client_data, logs) ==
    LET thinking == Get(analysis, "thinking_process", JEmptyObj)
        matches == Get(analysis, "property_matches", JEmptyArr)
        selected == Get(analysis, "selected_property", JEmptyObj)
        final_message == Get(analysis, "message", JStr("No message generated", 20))
    IN <<Lit(73), Tok("txt", "timestamp", 19), Lit(18), ClientName(client_data),
         Lit(6), ClientIdText(client_data), Lit(21), FubLink(client_data),
         Lit(2), SepTok, Lit(2)>>
       \o get_verbose_logs_summary(logs)
       \o <<Lit(2), SepTok, Lit(28)>>
       \o FdmSections(thinking, 1)
       \o <<SepTok, Lit(1)>>
       \o (IF Truthy(matches)
           THEN <<Lit(38), Num(PyLen(matches)), Lit(11)>> \o FdmOptions(matches, 1)
           ELSE <<>>)
       \o (IF Truthy(selected) THEN FdmSelected(selected) ELSE <<>>)
       \o <<Lit(1), SepTok, Lit(35)>> \o Str(final_message) \o <<Lit(1)>>


(***************************************************************************)
(* InventoryAgent.format_complete_analysis_for_discord.  Any exception is  *)
(* caught inside the function and turned into a one-line error text.       *)
(***************************************************************************)
\* value[:k] raises TypeError unless the value is a string or a list
SliceRaises(v) == v.ty \notin {"str", "arr"}
Cut(v, k) == IF v.ty = "str" THEN Take(ContentText(v), k) ELSE Str(v)

fca_raises(analysis) ==
    LET thinking == Get(analysis, "thinking_process", JEmptyObj)
        matches == Get(analysis, "property_matches", JEmptyArr)
        selected == Get(analysis, "selected_property", JEmptyObj)
        message == Get(analysis, "message", JStr("", 0))
    IN \/ ~IsDict(thinking)
       \/ \E i \in 1..5 :
             SliceRaises(Get(thinking, ThinkingKeys[i], JStr("Not provided", 12)))
       \/ LenRaises(matches)
       \/ ~IsDict(selected)
       \/ SliceRaises(message)

FcaBlock(thinking, key, k) ==
    <<Nl, Fence, Nl>> \o Cut(Get(thinking, key, JStr("Not provided", 12)), k)
    \o <<Nl, Fence, Nl, Nl>>

format_complete_analysis_for_discord(analysis) ==
    IF fca_raises(analysis) THEN <<Lit(54), Tok("txt", "exception", 37)>>
    ELSE
    LET thinking == Get(analysis, "thinking_process", JEmptyObj)
        matches == Get(analysis, "property_matches", JEmptyArr)
        selected == Get(analysis, "selected_property", JEmptyObj)
        message == Get(analysis, "message", JStr("", 0))
        json_str == DumpsIndent(analysis, 0)
    IN <<Lit(37), Nl, Nl, Lit(35), Nl, Nl, UcaTok>>
       \o FcaBlock(thinking, "client_analysis", 1200)
       \o <<UieTok>> \o FcaBlock(thinking, "inventory_evaluation", 1200)
       \o <<Lit(21)>> \o FcaBlock(thinking, "property_ranking", 1200)
       \o <<Lit(24)>> \o FcaBlock(thinking, "selection_reasoning", 1200)
       \o <<Lit(20)>> \o FcaBlock(thinking, "duplicate_check", 800)
       \o <<Lit(26), Nl, Lit(25), Num(PyLen(matches)), Nl, Lit(23)>>
       \o Field(selected, "address", 13)
       \o <<Nl, Lit(17)>> \o Field(selected, "price", 13)
       \o <<Nl, Lit(19)>> \o Cut(message, 150)
       \o (IF PyLen(message) > 150 THEN <<Lit(3)>> ELSE <<>>)
       \o <<Nl, Nl, Lit(24), Num(TLen(json_str)), Lit(11)>>

(***************************************************************************)
(* InventoryAgent.send_comprehensive_discord_analysis: the texts handed to *)
(* sendDiscordSanityCheckNoteAlert, in call order.  No hand-over depends   *)
(* on the outcome of an earlier one, so the list is computed up front.     *)
(***************************************************************************)
max_chunk_size == 1900
json_preview_size == 1800
json_chunk_size == 1500

Chunk(stage, text) == [stage |-> stage, text |-> text]

\* the section loop of the main report: sections are appended to the
\* current chunk while it stays within the limit
RECURSIVE SectionChunks(_, _)
SectionChunks(sections, current) ==
    IF sections = <<>> THEN (IF current # <<>> THEN <<current>> ELSE <<>>)
    ELSE IF TLen(current \o Head(sections)) <= max_chunk_size
         THEN SectionChunks(Tail(sections), current \o Head(sections))
         ELSE (IF current # <<>> THEN <<current>> ELSE <<>>)
              \o SectionChunks(Tail(sections), Head(sections))

\* the line loop: lines are re-joined with a newline each and appended to the
\* current chunk while it stays within the limit; a chunk therefore runs from
\* its first line s to the last line e that still fits (a line that does not
\* fit by itself is a chunk of its own).  rstrip tells whether the chunk is
\* right-stripped when handed over.
LinesLen(lines, s, e) == TLen(ConcatRange(lines, s, e)) + (e - s + 1)
ChunkEnd(lines, s) ==
    CHOOSE e \in s..Len(lines) :
        /\ e = s \/ LinesLen(lines, s, e) <= max_chunk_size
        /\ e = Len(lines) \/ LinesLen(lines, s, e + 1) > max_chunk_size
JoinLines(lines, s, e) ==
    ConcatRange([j \in 1..Len(lines) |-> lines[j] \o <<Nl>>], s, e)
RECURSIVE LineChunks(_, _, _)
LineChunks(lines, s, rstrip) ==
    IF s > Len(lines) THEN <<>>
    ELSE LET e == ChunkEnd(lines, s)
             chunk == JoinLines(lines, s, e)
         IN <<IF rstrip THEN RStrip(chunk) ELSE chunk>> \o LineChunks(lines, e + 1, rstrip)

main_analysis_chunks(discord_message) ==
    IF TLen(discord_message) <= max_chunk_size THEN <<discord_message>>
    ELSE LET parts == SplitOn(discord_message, MarkTok)
             header == parts[1] \o <<MarkTok>>
         IN <<header>>
            \o (IF Len(parts) > 1
                THEN LET thinking_sections == SplitOn(parts[2], CaTok) IN
                     IF Len(thinking_sections) > 1
                     THEN SectionChunks(SplitOn(thinking_sections[2], SepTok), <<CaTok>>)
                     ELSE <<>>
                ELSE <<>>)

RECURSIVE TechnicalSectionChunks(_, _)
TechnicalSectionChunks(content_sections, i) ==
    IF i > Len(content_sections) THEN <<>>
    ELSE LET chunk == IF i = 1 THEN content_sections[i]
                      ELSE <<UieTok>> \o content_sections[i]
         IN (IF TLen(chunk) <= max_chunk_size THEN <<chunk>>
             ELSE LineChunks(SplitOn(chunk, Nl), 1, FALSE))
            \o TechnicalSectionChunks(content_sections, i + 1)

technical_analysis_chunks(complete_analysis_msg) ==
    IF TLen(complete_analysis_msg) <= max_chunk_size THEN <<complete_analysis_msg>>
    ELSE LET sections == SplitOn(complete_analysis_msg, UcaTok) IN
         <<sections[1]>>
         \o (IF Len(sections) > 1
             THEN TechnicalSectionChunks(
                      SplitOn(<<UcaTok>> \o sections[2], UieTok), 1)
             ELSE <<>>)

KeyTok(k) == StrTok(k, Len(k))

json_message(complete_json) ==
    <<Lit(39), Nl, FenceJson, Nl>> \o Take(complete_json, json_preview_size)
    \o (IF TLen(complete_json) > json_preview_size THEN <<Lit(3)>> ELSE <<>>)
    \o <<Nl, Fence, Nl, Nl, Lit(20), Num(TLen(complete_json)), Lit(11), Nl, Lit(31)>>

\* fallback: fixed-size slices of the JSON text, each under a numbered header
RECURSIVE JsonSliceParts(_, _, _)
JsonSliceParts(complete_json, i, k) ==
    IF i >= TLen(complete_json) THEN <<>>
    ELSE <<(<<Lit(17), Num(k), Lit(3), Nl, FenceJson, Nl>>
            \o Slice(complete_json, i, i + json_chunk_size) \o <<Nl, Fence>>)>>
         \o JsonSliceParts(complete_json, i + json_chunk_size, k + 1)

json_parts(complete_json) ==
    IF Contains(complete_json, KeyTok("thinking_process"))
    THEN <<(<<Lit(40), Nl, FenceJson, Nl, Lit(20)>>
            \o SplitOn(SplitOn(complete_json, KeyTok("thinking_process"))[2],
                       KeyTok("property_matches"))[1]
            \o <<Nl, Fence>>)>>
         \o (IF Contains(complete_json, KeyTok("property_matches"))
             THEN <<(<<Lit(40), Nl, FenceJson, Nl, Lit(20)>>
                     \o SplitOn(SplitOn(complete_json, KeyTok("property_matches"))[2],
                                KeyTok("selected_property"))[1]
                     \o <<Nl, Fence>>)>>
             ELSE <<>>)
         \o (IF Contains(complete_json, KeyTok("selected_property"))
             THEN <<(<<Lit(51), Nl, FenceJson, Nl, Lit(21)>>
                     \o SplitOn(complete_json, KeyTok("selected_property"))[2]
                     \o <<Nl, Fence>>)>>
             ELSE <<>>)
    ELSE JsonSliceParts(complete_json, 0, 1)

RECURSIVE JsonPartChunks(_)
JsonPartChunks(parts) ==
    IF parts = <<>> THEN <<>>
    ELSE (IF TLen(Head(parts)) <= max_chunk_size THEN <<Head(parts)>>
          ELSE LineChunks(SplitOn(Head(parts), Nl), 1, TRUE))
         \o JsonPartChunks(Tail(parts))

json_structure_chunks(complete_json) ==
    IF TLen(json_message(complete_json)) <= max_chunk_size
    THEN <<json_message(complete_json)>>
    ELSE JsonPartChunks(json_parts(complete_json))

Staged(stage, texts) == [i \in 1..Len(texts) |-> Chunk(stage, texts[i])]

\* the whole dispatch; analysis is a dict on which format_discord_message
\* does not raise
send_comprehensive_chunks(analysis, client_data, logs) ==
    Staged("main", main_analysis_chunks(format_discord_message(analysis, client_data, logs)))
    \o Staged("technical",
              technical_analysis_chunks(format_complete_analysis_for_discord(analysis)))
    \o Staged("json", json_structure_chunks(DumpsIndent(analysis, 0)))


(***************************************************************************)
(* sendDiscordSanityCheckNoteAlert, content preparation: the characters    *)
(* that are actually posted for a text handed to the function.             *)
(***************************************************************************)
discord_limit == 2000
truncate_at == 1950

\* replace of the opening json fence followed by a brace: a newline and two
\* blanks are inserted after the brace
ReplaceFenceBrace(x) ==
    Concat([i \in 1..Len(x) |->
               IF i > 2 /\ x[i].t = "lb" /\ x[i - 1].t = "nl" /\ x[i - 2] = FenceJson
               THEN <<x[i], Nl, Tok("ws", " ", 2)>> ELSE <<x[i]>>])

\* replace of backslash-quote by quote: a JSON string whose content starts
\* with an escaped quote loses the backslash
ReplaceEscapedQuotes(x) ==
    [i \in 1..Len(x) |->
        IF x[i].t = "str" /\ x[i].s = "quoted"
        THEN Tok("str", "unescaped", x[i].n - 1) ELSE x[i]]

\* Faulty variant of prepare_content, against which the transport limit is
\* tested: the rewriting without the cut.
PrepareWithoutCut(textContent) == ReplaceEscapedQuotes(ReplaceFenceBrace(textContent))

prepare_content(textContent) ==
    LET content == ReplaceEscapedQuotes(ReplaceFenceBrace(textContent)) IN
    IF TLen(content) > discord_limit
    THEN Take(content, truncate_at) \o <<Nl, Tok("txt", "truncated", 15)>>
    ELSE content

\* the fixed text posted after a 400 response
simple_content == <<Tok("txt", "simplified", 76)>>

(***************************************************************************)
(* InventoryAgent.find_property_match, response processing                 *)
(***************************************************************************)
\* response.endswith of the bare fence
EndsWithFence(x) ==
    /\ x # <<>>
    /\ \/ x[Len(x)].t = "f"
       \/ x[Len(x)].t = "part" /\ x[Len(x)].s = "fence_json" /\ x[Len(x)].n = 3

StartsWithFenceJson(x) == x # <<>> /\ Head(x) = FenceJson

\* strip, drop a leading json fence, drop a trailing fence, strip
clean_response(response) ==
    LET r1 == Strip(response)
        r2 == IF StartsWithFenceJson(r1) THEN Drop(r1, 7) ELSE r1
        r3 == IF EndsWithFence(r2) THEN Take(r2, TLen(r2) - 3) ELSE r2
    IN Strip(r3)

AllDicts(matches) ==
    /\ matches.ty = "arr"
    /\ \A i \in 1..Len(matches.items) : IsDict(matches.items[i].v)

\* whether analyze_ai_response raises: a .get, .items or len on a value of
\* the wrong type
analyze_raises(json_response) ==
    \/ ~IsDict(json_response)
    \/ LET thinking == Get(json_response, "thinking_process", JEmptyObj)
           matches == Get(json_response, "property_matches", JEmptyArr)
           selected == Get(json_response, "selected_property", JEmptyObj)
       IN \/ ~IsDict(thinking)
          \/ LenRaises(matches)
          \/ Truthy(matches) /\ ~AllDicts(matches)
          \/ Truthy(selected) /\ ~IsDict(selected)

\* whether print_thinking_process raises
print_raises(analysis, verbose) ==
    \/ ~IsDict(analysis)
    \/ LET thinking == Get(analysis, "thinking_process", JEmptyObj)
           matches == Get(analysis, "property_matches", JEmptyArr)
           selected == Get(analysis, "selected_property", JEmptyObj)
       IN \/ ~IsDict(thinking)
          \/ verbose /\ \E i \in 1..5 :
                LenRaises(Get(thinking, ThinkingKeys[i], JStr("default", 20)))
          \/ Truthy(matches) /\ ~AllDicts(matches)
          \/ Truthy(selected) /\ ~IsDict(selected)

\* log entries: <<level, message length>>
E(level, m) == <<level, m>>

RECURSIVE SectionLogs(_, _)
SectionLogs(items, i) ==
    IF i > Len(items) THEN <<>>
    ELSE LET content_length == TLen(Str(items[i].v)) IN
         <<E("INFO", 4 + Len(items[i].k) + 2 + Digits(content_length) + 11)>>
         \o (IF content_length < 50
             THEN <<E("WARNING", 30 + Len(items[i].k))>> ELSE <<>>)
         \o SectionLogs(items, i + 1)

RECURSIVE MatchLogs(_, _)
MatchLogs(items, i) ==
    IF i > Len(items) THEN <<>>
    ELSE <<E("INFO", 8 + Digits(i) + 2 + TLen(Field(items[i].v, "address", 10))
                     + 9 + TLen(Field(items[i].v, "ranking", 3)))>>
         \o MatchLogs(items, i + 1)

\* the first element of matches that is not a dict, Len + 1 when all are
FirstNonDict(items) ==
    MinOf({i \in 1..(Len(items) + 1) : i = Len(items) + 1 \/ ~IsDict(items[i].v)})

\* the entries analyze_ai_response logs, up to its end or to the statement
\* that raises
analyze_logs(json_response) ==
    IF ~IsDict(json_response) THEN <<E("DEBUG", 35)>>
    ELSE
    LET thinking == Get(json_response, "thinking_process", JEmptyObj)
        matches == Get(json_response, "property_matches", JEmptyArr)
        selected == Get(json_response, "selected_property", JEmptyObj)
    IN <<E("DEBUG", 35)>>
       \o (IF LenRaises(thinking) THEN <<>>
           ELSE <<E("INFO", 27 + Digits(PyLen(thinking)))>>
                \o (IF ~IsDict(thinking) THEN <<>>
                    ELSE SectionLogs(thinking.items, 1)
                         \o (IF LenRaises(matches) THEN <<>>
                             ELSE <<E("INFO", 24 + Digits(PyLen(matches)))>>
                                  \o (IF ~IsList(matches) THEN <<>>
                                      ELSE MatchLogs(SubSeq(matches.items, 1,
                                               FirstNonDict(matches.items) - 1), 1)
                                           \o (IF AllDicts(matches) /\ Truthy(selected)
                                                  /\ IsDict(selected)
                                               THEN <<E("INFO", 19 + TLen(Field(selected, "address", 10))),
                                                      E("INFO", 7 + TLen(Field(selected, "price", 8))),
                                                      E("INFO", 14 + TLen(Field(selected, "neighborhood", 15)))>>
                                               ELSE <<>>)))))

(***************************************************************************)
(* langcahin.py: extract_json_safely, fix_incomplete_json and              *)
(* extract_property_info                                                   *)
(***************************************************************************)
IsFence(tk) == tk.t \in {"f", "fj"}
NotFence(tk) == ~IsFence(tk)

\* a string value that holds a raw model output: its characters are kept
\* for the regex searches that are run on it later
JRaw(x) == [ty |-> "str", s |-> "raw_response", n |-> TLen(x), items |-> x]

\* re.search for a fence, optional json tag, lazily anything, a fence: the
\* text between the first fence and the next one
fenced_block(x) ==
    LET opens == {i \in 1..Len(x) : IsFence(x[i])} IN
    IF opens = {} THEN [found |-> FALSE, group |-> <<>>]
    ELSE LET i == MinOf(opens)
             closes == {j \in (i + 1)..Len(x) : IsFence(x[j])}
         IN IF closes = {} THEN [found |-> FALSE, group |-> <<>>]
            ELSE [found |-> TRUE, group |-> SubSeq(x, i + 1, MinOf(closes) - 1)]

\* re.search for a quoted key, a colon and a bracketed run that ends at the
\* first closing bracket: open and close are the bracket kinds
KeyBlock(x, key, open, close) ==
    LET start(k) == SkipWs(x, SkipWs(x, k + 1) + 1)
        ends(k) == {e \in (start(k) + 1)..Len(x) : x[e].t = close}
        S == {k \in 1..Len(x) :
                /\ x[k].t = "str" /\ x[k].s = key
                /\ IsTok(x, SkipWs(x, k + 1), "colon")
                /\ IsTok(x, start(k), open)
                /\ ends(k) # {}}
    IN IF S = {} THEN [found |-> FALSE, group |-> <<>>]
       ELSE LET k == MinOf(S) IN
            [found |-> TRUE, group |-> SubSeq(x, start(k), MinOf(ends(k)))]

\* re.findall of brace, lazily anything, brace: each run from an opening
\* brace to the next closing brace, left to right
RECURSIVE BraceRuns(_, _)
BraceRuns(x, i) ==
    LET opens == {b \in i..Len(x) : x[b].t = "lb"} IN
    IF opens = {} THEN <<>>
    ELSE LET b == MinOf(opens)
             closes == {e \in (b + 1)..Len(x) : x[e].t = "rb"}
         IN IF closes = {} THEN <<>>
            ELSE <<SubSeq(x, b + 1, MinOf(closes) - 1)>> \o BraceRuns(x, MinOf(closes) + 1)

\* the dict built for one property of bestMatchingProperties
PropDict(prop) ==
    LET name_match == SearchKeyString(prop, "name", 1, TRUE)
        addr_match == SearchKeyString(prop, "address", 1, TRUE)
    IN JObj((IF name_match.found THEN <<KV("name", name_match.v)>> ELSE <<>>)
            \o (IF addr_match.found THEN <<KV("address", addr_match.v)>> ELSE <<>>))

\* the fix_incomplete_json step for the financial status: r is the result
\* dictionary so far
fix_financial(clean_str, r) ==
    Let(KeyBlock(clean_str, "Financial Status", "lb", "rb"), LAMBDA m :
        IF ~m.found THEN r
        ELSE Let(json_loads(m.group), LAMBDA d :
                 IF d.ok THEN SetKey(r, "Financial_Status", d.v) ELSE r))

\* the step for the property recommendation
fix_property(clean_str, r) ==
    Let(KeyBlock(clean_str, "Final Property Recommendation", "lb", "rb"), LAMBDA m :
        IF ~m.found THEN r
        ELSE Let(json_loads(m.group), LAMBDA d :
                 IF d.ok THEN SetKey(r, "Final_Property_Recommendation", d.v)
                 ELSE Let(SearchKeyString(clean_str, "property", 1, TRUE), LAMBDA n :
                          IF n.found
                          THEN SetKey(r, "property", JObj(<<KV("name", n.v)>>))
                          ELSE r)))

\* the step for the best matching properties
fix_properties(clean_str, r) ==
    Let(KeyBlock(clean_str, "bestMatchingProperties", "ls", "rs"), LAMBDA m :
        IF ~m.found THEN r
        ELSE Let(BraceRuns(SubSeq(m.group, 2, Len(m.group) - 1), 1), LAMBDA runs :
                 IF runs = <<>> THEN r
                 ELSE SetKey(r, "bestMatchingProperties",
                             JArr([i \in 1..Len(runs) |-> Elem(PropDict(runs[i]))]))))

\* None when nothing was recovered
fix_incomplete_json(json_str) ==
    Let(SelectSeq(json_str, NotFence), LAMBDA clean_str :
    Let(fix_financial(clean_str, JEmptyObj), LAMBDA r1 :
    Let(fix_property(clean_str, r1), LAMBDA r2 :
    Let(fix_properties(clean_str, r2), LAMBDA r3 :
        IF Truthy(r3) THEN r3 ELSE JNone))))

\* the last two steps of extract_json_safely
extract_forgiving(response_text, context_n) ==
    Let(fix_incomplete_json(response_text), LAMBDA corrected_json :
        IF Truthy(corrected_json)
        THEN [value |-> corrected_json,
              attempts |-> <<"strict", "fenced", "field_regex">>]
        ELSE [value |-> JObj(<<KV("error", JStr("Failed to parse", 16 + context_n)),
                               KV("raw_response", JRaw(response_text))>>),
              attempts |-> <<"strict", "fenced", "field_regex", "total_failure">>])

\* the code-block step of extract_json_safely and what follows it
extract_fenced(response_text, context_n) ==
    Let(fenced_block(response_text), LAMBDA json_match :
        IF ~json_match.found THEN extract_forgiving(response_text, context_n)
        ELSE Let(json_loads(json_match.group), LAMBDA fenced :
                 IF fenced.ok
                 THEN [value |-> fenced.v, attempts |-> <<"strict", "fenced">>]
                 ELSE extract_forgiving(response_text, context_n)))

\* response_text is the text an agent returned; context names the stage by
\* a text of context_n characters.  [value, attempts]: the value returned
\* and the steps gone through to get it.
extract_json_safely(response_text, context_n) ==
    Let(json_loads(response_text), LAMBDA strict :
        IF strict.ok THEN [value |-> strict.v, attempts |-> <<"strict">>]
        ELSE extract_fenced(response_text, context_n))

JEmptyStr == JStr("", 0)
JNum(s) == [ty |-> "num", s |-> s, n |-> Len(s), items |-> <<>>]
BristolStation == JStr("Bristol Station", 15)

\* re.search of a quoted key and string in a value: only a raw model output
\* has characters to search
SearchRaw(v, key) ==
    IF v.ty = "str" /\ v.s = "raw_response" THEN SearchKeyString(v.items, key, 1, TRUE)
    ELSE [found |-> FALSE, v |-> JNone]

\* the first element of best_matches that is a dict named like the property,
\* 0 when none
NamedMatch(best_matches, property) ==
    LET S == {i \in 1..Len(best_matches.items) :
                /\ IsDict(best_matches.items[i].v)
                /\ Get(best_matches.items[i].v, "name", JNone) = property}
    IN IF S = {} THEN 0 ELSE MinOf(S)

NoProperty(property_info) == ~Truthy(Get(property_info, "property", JNone))

\* extract_property_info, the part that reads the final analysis; the
\* caller has established that final_analysis is a dict
epi_recommendation(final_analysis) ==
    Let(Get(final_analysis, "Final Property Recommendation",
            Get(final_analysis, "Final_Property_Recommendation", JEmptyObj)),
        LAMBDA rec :
            IF IsDict(rec)
            THEN JObj(<<KV("property", Get(rec, "property", JEmptyStr)),
                        KV("reason", Get(rec, "reason", JEmptyStr))>>)
            ELSE JEmptyObj)

\* the property at the root level of the final analysis
epi_root(final_analysis, property_info) ==
    IF NoProperty(property_info) /\ HasKey(final_analysis, "property")
    THEN SetKey(property_info, "property",
                Get(Lookup(final_analysis, "property"), "name", JEmptyStr))
    ELSE property_info

\* the property searched in the raw response
epi_raw(final_analysis, property_info) ==
    IF ~NoProperty(property_info) THEN property_info
    ELSE Let(SearchRaw(Get(final_analysis, "raw_response", JEmptyStr), "property"),
             LAMBDA property_match :
                 IF property_match.found
                 THEN SetKey(property_info, "property", property_match.v)
                 ELSE property_info)

\* the default property name
epi_default(property_info) ==
    IF NoProperty(property_info)
    THEN SetKey(property_info, "property", BristolStation)
    ELSE property_info

\* the fields copied from the matching element of best_matches
epi_copy(property_info, best_matches) ==
    Let(NamedMatch(best_matches, Lookup(property_info, "property")), LAMBDA m :
        IF m = 0 THEN property_info
        ELSE Let(best_matches.items[m].v, LAMBDA prop :
                 JObj(property_info.items \o
                      <<KV("address", Get(prop, "address", JEmptyStr)),
                        KV("rentRange", Get(prop, "rentRange", JEmptyStr)),
                        KV("beds", Get(prop, "beds", JEmptyStr)),
                        KV("baths", Get(prop, "baths", JEmptyStr)),
                        KV("map_link", Get(prop, "mapLink", JEmptyStr)),
                        KV("virtual_tour", Get(prop, "virtualTour", JEmptyStr)),
                        KV("photos", Get(prop, "photos", JEmptyArr))>>)))

\* one link searched in the raw response of the inventory matches
epi_link(property_info, raw_response, key, field) ==
    Let(SearchRaw(raw_response, key), LAMBDA link_match :
        IF link_match.found THEN SetKey(property_info, field, link_match.v)
        ELSE property_info)

\* the links searched in the raw response of the inventory matches
epi_links(property_info, inventory_matches) ==
    IF Truthy(Get(property_info, "map_link", JNone)) THEN property_info
    ELSE Let(Get(inventory_matches, "raw_response", JEmptyStr), LAMBDA raw_response :
             epi_link(epi_link(property_info, raw_response, "mapLink", "map_link"),
                      raw_response, "virtualTour", "virtual_tour"))

\* the part that reads the inventory matches
epi_inventory(property_info, inventory_matches) ==
    IF ~IsDict(inventory_matches) THEN property_info
    ELSE Let(Get(inventory_matches, "bestMatchingProperties", JEmptyArr),
             LAMBDA best_matches :
                 IF ~IsList(best_matches) THEN property_info
                 ELSE Let(epi_copy(property_info, best_matches), LAMBDA copied :
                          epi_links(copied, inventory_matches)))

\* the default address of the default property
epi_default_address(property_info) ==
    IF ~Truthy(Get(property_info, "address", JNone))
       /\ Lookup(property_info, "property") = BristolStation
    THEN SetKey(SetKey(SetKey(SetKey(property_info,
             "address", JStr("704 Greenwood Cir, Naperville, IL 60563", 39)),
             "rentRange", JStr("$2,220 - $2,385", 15)),
             "beds", JNum("2")),
             "baths", JNum("2"))
    ELSE property_info

\* whether extract_property_info raises: a .get on a value that is no dict
epi_raises(final_analysis, inventory_matches) ==
    IF ~IsDict(final_analysis) THEN TRUE
    ELSE Let(epi_recommendation(final_analysis), LAMBDA p1 :
             /\ NoProperty(p1)
             /\ HasKey(final_analysis, "property")
             /\ ~IsDict(Lookup(final_analysis, "property")))

extract_property_info(final_analysis, inventory_matches) ==
    Let(epi_recommendation(final_analysis), LAMBDA p1 :
    Let(epi_root(final_analysis, p1), LAMBDA p2 :
    Let(epi_raw(final_analysis, p2), LAMBDA p3 :
    Let(epi_default(p3), LAMBDA p4 :
    Let(epi_inventory(p4, inventory_matches), LAMBDA p5 :
        epi_default_address(p5))))))

(***************************************************************************)
(* State.  One run of one of the two programs: the inventory agent         *)
(* (find_property_match) or the agent-team pipeline (process_client).      *)
(***************************************************************************)
VARIABLES
    app,              \* which program runs: agent or pipeline
    pc,               \* position of the run
    send_to_discord,  \* InventoryAgent flags
    verbose,
    silent_mode,
    verbose_logs,     \* length of each captured log entry
    response,         \* raw model output of the agent chain
    attempts,         \* cascade steps the normalization went through
    path,             \* the branch find_property_match returned from
    result,           \* the JSON text returned to the caller
    reports,          \* the texts the dispatcher was asked to deliver
    queue,            \* chunks not yet handed to the send function
    handed,           \* chunks handed to the send function, in call order
    inflight,         \* the request the transport is working on, if any
    posted,           \* requests the transport has resolved, with outcome
    failures,         \* transport failures so far
    stage_raw,        \* pipeline: raw output of the latest agent
    extracted,        \* pipeline: what extract_json_safely returned for it
    profile_analysis,
    inventory_matches,
    final_analysis,
    selected_property,
    lc_result,        \* pipeline: the value process_client returns
    session,          \* pipeline: the database session of process_client
    impl,             \* matching: which implementation serves the request
    inventory,        \* matching: candidates of the inventory notes
    outgoing,         \* matching: outgoing messages in the store, newest first
    previous_messages,\* matching: the messages that reach the prompt
    match_results,    \* matching: what each run of the request returned
    team_pc,          \* team: position of each request of the agent team
    builtins_print,   \* team: the function installed as builtins.print
    original_print,   \* team: the function each request saved on entry
    team_responses,   \* team: the lines each request has captured
    team_message,     \* team: the request whose line each request picked
    query_agent,      \* query: the agent whose process_query is called
    query_empty,      \* query: the call has no client message / chat history
    attempt_number,   \* query: times the retry wrapper has run the body
    failed_invocations, \* query: model invocations of the call that raised
    query_result,     \* query: what the caller of process_query got
    response_text,    \* ui: the text handed to parse_json_response
    response_data,    \* ui: the mapping parse_json_response returned
    formatter_calls,  \* sms: invocations of SMSFormatterAgent.process_query
    sms_final,        \* sms: what the formatter returned to MainAgent
    main_result,      \* sms: what MainAgent.process_query returned
    zip_responses,    \* zip: the model responses received so far
    re_bound,         \* zip: the function's local name re is bound
    zip_codes,        \* zip: what get_neighborhood_zip_codes_from_ai returned
    fetch_op,         \* fetch: the data-fetch operation called
    fetch_session,    \* fetch: the database session of the operation
    fetch_error,      \* fetch: the exception that reached the caller
    note_rows,        \* notes: the note bodies the query returned
    notes_content,    \* notes: the text get_client_markdown_content returned
    notes_error       \* notes: the exception it raised

vars == <<app, pc, send_to_discord, verbose, silent_mode, verbose_logs, response,
          attempts, path, result, reports, queue, handed, inflight, posted,
          failures, stage_raw, extracted, profile_analysis, inventory_matches,
          final_analysis, selected_property, lc_result, session,
          impl, inventory, outgoing, previous_messages, match_results,
          team_pc, builtins_print, original_print, team_responses, team_message,
          query_agent, query_empty, attempt_number, failed_invocations, query_result,
          response_text, response_data, formatter_calls, sms_final, main_result,
          zip_responses, re_bound, zip_codes, fetch_op, fetch_session, fetch_error,
          note_rows, notes_content, notes_error>>

agent_vars == <<send_to_discord, verbose, silent_mode, verbose_logs, response,
                attempts, path, result, reports, queue, handed, inflight, posted,
                failures>>
pipeline_vars == <<stage_raw, extracted, profile_analysis, inventory_matches,
                   final_analysis, selected_property, lc_result, session>>
matching_vars == <<impl, inventory, outgoing, previous_messages, match_results>>
\* the variables of the components other than the agent and the pipeline
team_vars == <<team_pc, builtins_print, original_print, team_responses, team_message>>
query_vars == <<query_agent, query_empty, attempt_number, failed_invocations,
                query_result>>
\* the variables of the functions checked on their own
ui_vars == <<response_text, response_data>>
sms_vars == <<formatter_calls, sms_final, main_result>>
zip_vars == <<zip_responses, re_bound, zip_codes>>
fetch_vars == <<fetch_op, fetch_session, fetch_error>>
notes_vars == <<note_rows, notes_content, notes_error>>
tool_vars == <<ui_vars, sms_vars, zip_vars, fetch_vars, notes_vars>>
service_vars == <<matching_vars, team_vars, query_vars, tool_vars>>

\* main() constructs the agent with show_thinking on
show_thinking == TRUE
\* characters of the client id that main() passes by default
client_id_len == 6
\* the client row of the runs modelled: a full name of six characters
client_row == [found |-> TRUE, fullname_n |-> 6, id_n |-> client_id_len]
ClientId == Tok("txt", "client_id", client_id_len)

\* str(e) of the exceptions that reach the outer handler; the interpreter's
\* AttributeError text is taken at 37 characters
ExcText(kind) ==
    CASE kind = "no_client" -> <<Lit(25), ClientId>>
      [] kind = "db_error" -> <<Tok("txt", "db_error", 30)>>
      [] kind = "chain_error" -> <<Tok("txt", "chain_error", 30)>>
      [] kind = "attribute_error" -> <<Tok("txt", "attribute_error", 37)>>

Log(logs, entries) == verbose_log(logs, verbose, entries)

\* __init__
ConstructLogs == <<E("INFO", 31), E("DEBUG", 7 + 16 + 18)>>
\* find_property_match up to the first query, get_client_data, get_db_session
StartLogs ==
    <<E("INFO", 45 + client_id_len), E("INFO", 80), E("INFO", 29),
      E("INFO", 29 + client_id_len), E("INFO", 25), E("INFO", 33)>>
\* get_client_data after the client row was found, and the data formatting
FoundLogs ==
    <<E("INFO", 14 + client_row.fullname_n), E("INFO", 28), E("INFO", 28 + 4 + 2 + 4),
      E("INFO", 23), E("INFO", 6 + 1 + 16), E("INFO", 26), E("INFO", 6 + 1 + 18),
      E("INFO", 24), E("SUCCESS", 38)>>
FormatLogs ==
    <<E("INFO", 29), E("INFO", 28), E("INFO", 28), E("INFO", 30), E("INFO", 25),
      E("INFO", 22), E("INFO", 34), E("INFO", 29), E("INFO", 38), E("INFO", 24),
      E("INFO", 29), E("INFO", 27), E("INFO", 25), E("INFO", 43),
      E("DEBUG", 147), E("DEBUG", 48), E("DEBUG", 42), E("INFO", 26)>>

Min(a, b) == IF a < b THEN a ELSE b

\* entries logged between the model's answer and json.loads
ResponseLogs(raw) ==
    <<E("SUCCESS", 24), E("INFO", 17 + Digits(TLen(raw)) + 11),
      E("DEBUG", 17 + Min(TLen(raw), 300) + 3), E("INFO", 33)>>
    \o (IF StartsWithFenceJson(Strip(raw)) THEN <<E("INFO", 28)>> ELSE <<>>)
    \o (IF EndsWithFence(IF StartsWithFenceJson(Strip(raw))
                         THEN Drop(Strip(raw), 7) ELSE Strip(raw))
        THEN <<E("INFO", 28)>> ELSE <<>>)
    \o <<E("INFO", 24)>>

\* the messages of the regex, total-failure and error branches
simple_discord_msg(message, logs) ==
    <<Lit(47), ClientId, Lit(19)>> \o ContentText(message) \o <<Lit(2)>>
    \o get_verbose_logs_summary(logs)
error_msg == JStr("Unable to find suitable property match at this time.", 52)
error_discord_msg(logs) ==
    <<Lit(45), ClientId, Lit(6)>> \o ContentText(error_msg) \o <<Lit(2)>>
    \o get_verbose_logs_summary(logs)
agent_error_msg(e, logs) ==
    <<Lit(37), ClientId, Lit(12)>> \o e \o <<Lit(2)>>
    \o get_verbose_logs_summary(logs)

NoReports == [main |-> <<>>, technical |-> <<>>, json |-> <<>>]

\* what a branch of find_property_match leaves behind when it reaches its
\* return statement or its first send
Outcome(logs, att, p, res, rep, q) ==
    [logs |-> logs, attempts |-> att, path |-> p, result |-> res,
     reports |-> rep, queue |-> q]

\* except Exception (outer handler)
error_branch(logs0, att, e) ==
    LET logs == Log(logs0, <<E("ERROR", 39 + TLen(e))>>) IN
    Outcome(logs, att, "error",
            Dumps(JObj(<<KV("error", JStr("exception", TLen(e)))>>)),
            NoReports,
            IF send_to_discord THEN <<Chunk("error", agent_error_msg(e, logs))>>
            ELSE <<>>)


\* the try block after a successful json.loads
strict_branch(json_response, logs0) ==
    LET logsA == Log(logs0, <<E("SUCCESS", 28)>>
                     \o (IF verbose THEN analyze_logs(json_response) ELSE <<>>))
        logsP == Log(logsA, IF show_thinking /\ ~silent_mode
                            THEN <<E("INFO", 41)>> ELSE <<>>)
        logsD == Log(logsP, IF send_to_discord
                            THEN <<E("INFO", 48), E("INFO", 40)>> ELSE <<>>)
        e == ExcText("attribute_error")
    IN IF verbose /\ analyze_raises(json_response)
       THEN error_branch(logsA, <<"strict">>, e)
       ELSE IF show_thinking /\ ~silent_mode /\ print_raises(json_response, verbose)
       THEN error_branch(logsP, <<"strict">>, e)
       ELSE IF send_to_discord /\ fdm_raises(json_response)
       THEN error_branch(logsD, <<"strict">>, e)
       ELSE IF ~IsDict(json_response)
       THEN error_branch(logsD, <<"strict">>, e)
       ELSE Outcome(logsD, <<"strict">>, "strict", DumpsIndent(json_response, 0),
                    IF send_to_discord
                    THEN [main |-> format_discord_message(json_response, client_row, logsD),
                          technical |-> format_complete_analysis_for_discord(json_response),
                          json |-> json_message(DumpsIndent(json_response, 0))]
                    ELSE NoReports,
                    IF send_to_discord
                    THEN send_comprehensive_chunks(json_response, client_row, logsD)
                    ELSE <<>>)

\* except json.JSONDecodeError; the decoder's error text is taken at 41
\* characters (Expecting value, line, column, char)
decode_error_branch(cleaned, logs0) ==
    LET logs1 == Log(logs0, <<E("ERROR", 21 + 41), E("INFO", 41)>>)
        message_match == search_message(cleaned)
    IN IF message_match.found
       THEN LET logs2 == Log(logs1, <<E("SUCCESS", 19 + message_match.v.n)>>) IN
            Outcome(logs2, <<"strict", "field_regex">>, "regex",
                    Dumps(JObj(<<KV("message", message_match.v)>>)),
                    NoReports,
                    IF send_to_discord
                    THEN <<Chunk("simple", simple_discord_msg(message_match.v, logs2))>>
                    ELSE <<>>)
       ELSE LET logs2 == Log(logs1, <<E("WARNING", 33 + error_msg.n)>>) IN
            Outcome(logs2, <<"strict", "field_regex", "total_failure">>, "total",
                    Dumps(JObj(<<KV("message", error_msg)>>)),
                    NoReports,
                    IF send_to_discord
                    THEN <<Chunk("simple", error_discord_msg(logs2))>>
                    ELSE <<>>)

process_response(raw, logs0) ==
    LET logs1 == Log(logs0, ResponseLogs(raw))
        cleaned == clean_response(raw)
        parsed == json_loads(cleaned)
    IN IF parsed.ok THEN strict_branch(parsed.v, logs1)
       ELSE decode_error_branch(cleaned, logs1)

\* entries the dispatcher logs after each of its three stages
DispatchLogs(rep) ==
    IF rep = NoReports THEN <<>>
    ELSE <<E("SUCCESS", IF TLen(rep.main) <= max_chunk_size THEN 29 ELSE 36),
           E("SUCCESS", IF TLen(rep.technical) <= max_chunk_size THEN 32 ELSE 41),
           E("SUCCESS", IF TLen(rep.json) <= max_chunk_size THEN 28 ELSE 22 + 1 + 6)>>


(***************************************************************************)
(* Model outputs the runs are checked on                                   *)
(***************************************************************************)
Thinking(ca, ie) ==
    JObj(<<KV("client_analysis", ca), KV("inventory_evaluation", ie),
           KV("property_ranking", JStr("pr", 60)),
           KV("selection_reasoning", JStr("sr", 60)),
           KV("duplicate_check", JStr("dc", 40))>>)
Prop == JObj(<<KV("address", JStr("addr", 20)), KV("price", JStr("price", 6)),
               KV("ranking", JStr("1", 1))>>)
Record(thinking, message) ==
    JObj(<<KV("thinking_process", thinking), KV("property_matches", JArr(<<Elem(Prop)>>)),
           KV("selected_property", Prop), KV("message", message)>>)

\* a short valid record, and the same record with the message first
MiniRecord ==
    JObj(<<KV("thinking_process", JObj(<<KV("client_analysis", JStr("ca", 12))>>)),
           KV("property_matches", JEmptyArr),
           KV("selected_property", JObj(<<KV("address", JStr("addr", 9))>>)),
           KV("message", JStr("msg", 20))>>)
MiniMessageFirst ==
    JObj(<<KV("message", JStr("msg", 20)),
           KV("thinking_process", JObj(<<KV("client_analysis", JStr("ca", 12))>>)),
           KV("property_matches", JEmptyArr),
           KV("selected_property", JObj(<<KV("address", JStr("addr", 9))>>))>>)
QuotedRecord ==
    JObj(<<KV("message", JStr("quoted", 20)), KV("thinking_process", JEmptyObj),
           KV("property_matches", JEmptyArr), KV("selected_property", JEmptyObj)>>)

\* longest content of a thinking section, and of a message, in the inputs
MaxSection == 2500
MaxMessage == 2190

\* every truncation of a text, offsets 0 up to and including its length
Truncations(x) == {Take(x, k) : k \in 0..TLen(x)}

ValidRecords ==
    {MiniRecord, MiniMessageFirst, QuotedRecord,
     Record(Thinking(JStr("ca", 60), JStr("ie", 60)), JStr("msg", 80)),
     Record(Thinking(JStr("ca", 1500), JStr("ie", 1500)), JStr("msg", 80)),
     Record(Thinking(JStr("ca", MaxSection), JStr("ie", 60)), JStr("msg", 80)),
     Record(Thinking(JStr("ca", 60), JStr("ie", 60)), JStr("report_markers", MaxMessage)),
     JObj(<<KV("message", JStr("msg", 80))>>)}

UnexpectedShapes ==
    {JArr(<<Elem(JStr("x", 1)), Elem(JStr("y", 1))>>),
     JStr("text", 5),
     Record(JStr("thinking", 30), JStr("msg", 80)),
     JObj(<<KV("thinking_process", Thinking(JStr("ca", 60), JNone)),
            KV("message", JStr("msg", 80))>>)}

Fenced(x) == <<FenceJson, Nl>> \o x \o <<Nl, Fence>>
BareFenced(x) == <<Fence, Nl>> \o x \o <<Nl, Fence>>
Commentary(x) == <<Tok("txt", "commentary", 30), Nl>> \o x \o <<Nl, Tok("txt", "closing", 12)>>

RawInputs ==
    Truncations(Dumps(MiniRecord)) \cup Truncations(Dumps(MiniMessageFirst))
    \cup {Take(Dumps(QuotedRecord), 36)}
    \cup {Dumps(v) : v \in ValidRecords}
    \cup {DumpsIndent(MiniRecord, 0)}
    \cup {Dumps(v) : v \in UnexpectedShapes}
    \cup {Fenced(Dumps(MiniRecord)), BareFenced(Dumps(MiniRecord)),
          Commentary(Fenced(Dumps(MiniRecord))),
          <<Tok("txt", "garbage", 40)>>}


(***************************************************************************)
(* The inventory agent: find_property_match and the transport              *)
(***************************************************************************)
\* transport failures a run may see
MaxFailures == 2

TransportOutcomes == {"200", "400", "500", "exception"}

\* Faulty variants of the two definitions below, against which the delivery
\* properties are tested: a send that does not wait for its request, and a
\* send function without its try/except.
HandOverWithoutWaiting(fl) == TRUE
PropagatesTransportException(outcome) == outcome = "exception"

\* requests.post is a blocking call: the send function is entered again only
\* after the previous request has been resolved
CanHandOver(fl) == fl = <<>>

\* the try/except around the whole send function: no outcome of the
\* transport reaches the dispatcher as an exception
send_propagates(outcome) == FALSE

\* Faulty variant of needs_fallback, against which the request count of a
\* send is tested: a second request after every failure.
FallbackOnAnyFailure(outcome, fallback) == outcome # "200" /\ ~fallback

\* the elif branch of the send function: the simplified content is posted
\* when the response to the prepared content has status 400
needs_fallback(outcome, fallback) == outcome = "400" /\ ~fallback

Request(idx, content, fallback) ==
    [idx |-> idx, content |-> content, fallback |-> fallback]

Leave(o) ==
    /\ verbose_logs' = o.logs
    /\ attempts' = o.attempts
    /\ path' = o.path
    /\ result' = o.result
    /\ reports' = o.reports
    /\ queue' = o.queue
    /\ pc' = "dispatching"

\* find_property_match from its entry to the model call: get_client_data
\* and the formatting of the prompt data
GetClientData(db) ==
    /\ app = "agent" /\ pc = "start"
    /\ IF db = "ok"
       THEN /\ verbose_logs' = Log(verbose_logs, StartLogs \o FoundLogs \o FormatLogs)
            /\ pc' = "awaiting_chain"
            /\ UNCHANGED <<attempts, path, result, reports, queue>>
       ELSE Leave(error_branch(
                Log(verbose_logs,
                    StartLogs \o (IF db = "no_client"
                                  THEN <<E("ERROR", 25 + client_id_len)>> ELSE <<>>)
                    \o <<E("INFO", 24)>>),
                <<>>, ExcText(IF db = "no_client" THEN "no_client" ELSE "db_error")))
    /\ UNCHANGED <<app, send_to_discord, verbose, silent_mode, response, handed,
                   inflight, posted, failures>>
    /\ UNCHANGED <<pipeline_vars, service_vars>>

\* the model answers: the response is cleaned, parsed and turned into the
\* returned record; the texts to send are ready to be handed over
ChainRespond(raw) ==
    /\ app = "agent" /\ pc = "awaiting_chain"
    /\ response' = raw
    /\ Leave(process_response(raw, verbose_logs))
    /\ UNCHANGED <<app, send_to_discord, verbose, silent_mode, handed, inflight,
                   posted, failures>>
    /\ UNCHANGED <<pipeline_vars, service_vars>>

\* chain.arun raises
ChainRaise ==
    /\ app = "agent" /\ pc = "awaiting_chain"
    /\ Leave(error_branch(verbose_logs, <<>>, ExcText("chain_error")))
    /\ UNCHANGED <<app, send_to_discord, verbose, silent_mode, response, handed,
                   inflight, posted, failures>>
    /\ UNCHANGED <<pipeline_vars, service_vars>>

\* sendDiscordSanityCheckNoteAlert up to requests.post
HandOver ==
    /\ app = "agent" /\ pc = "dispatching"
    /\ queue # <<>>
    /\ CanHandOver(inflight)
    /\ handed' = Append(handed, Head(queue))
    /\ inflight' = <<Request(Len(handed) + 1, prepare_content(Head(queue).text), FALSE)>>
    /\ queue' = Tail(queue)
    /\ UNCHANGED <<app, pc, send_to_discord, verbose, silent_mode, verbose_logs,
                   response, attempts, path, result, reports, posted, failures>>
    /\ UNCHANGED <<pipeline_vars, service_vars>>

\* requests.post resolves and the send function runs to its return
TransportRespond(outcome) ==
    /\ app = "agent" /\ pc = "dispatching"
    /\ inflight # <<>>
    /\ outcome # "200" => failures < MaxFailures
    /\ failures' = IF outcome = "200" THEN failures ELSE failures + 1
    /\ posted' = Append(posted, [idx |-> inflight[1].idx, content |-> inflight[1].content,
                                 fallback |-> inflight[1].fallback, outcome |-> outcome])
    /\ IF send_propagates(outcome)
       THEN /\ inflight' = <<>>
            /\ Leave(error_branch(verbose_logs, attempts, ExcText("chain_error")))
       ELSE /\ inflight' = IF needs_fallback(outcome, inflight[1].fallback)
                           THEN <<Request(inflight[1].idx, simple_content, TRUE)>>
                           ELSE <<>>
            /\ UNCHANGED <<pc, verbose_logs, attempts, path, result, reports, queue>>
    /\ UNCHANGED <<app, send_to_discord, verbose, silent_mode, response, handed>>
    /\ UNCHANGED <<pipeline_vars, service_vars>>

\* the dispatch is over: the remaining log entries, and the return
Return ==
    /\ app = "agent" /\ pc = "dispatching"
    /\ queue = <<>> /\ inflight = <<>>
    /\ pc' = "done"
    /\ verbose_logs' =
          Log(verbose_logs,
              DispatchLogs(reports)
              \o (IF path = "strict"
                  THEN <<E("SUCCESS", 17),
                         E("INFO", 13 + TLen(Str(Get(json_loads(result).v, "message",
                                                     JStr("No message generated", 20)))))>>
                  ELSE <<>>))
    /\ UNCHANGED <<app, send_to_discord, verbose, silent_mode, response, attempts,
                   path, result, reports, queue, handed, inflight, posted, failures>>
    /\ UNCHANGED <<pipeline_vars, service_vars>>

(***************************************************************************)
(* The agent-team pipeline: process_client                                 *)
(***************************************************************************)
FinalOk ==
    JObj(<<KV("Final Property Recommendation",
              JObj(<<KV("property", JStr("Oak Ridge", 9)), KV("reason", JStr("fits", 4))>>)),
           KV("match_justification", JStr("justification", 30))>>)
FinalNested ==
    JObj(<<KV("Final Property Recommendation",
              JObj(<<KV("property", JStr("Oak Ridge", 9)),
                     KV("details", JObj(<<KV("a", JStr("b", 1))>>))>>))>>)
InventoryOk ==
    JObj(<<KV("bestMatchingProperties",
              JArr(<<Elem(JObj(<<KV("name", JStr("Oak Ridge", 9)),
                                 KV("address", JStr("1 Oak St", 8))>>)),
                     Elem(JObj(<<KV("name", JStr("Elm Court", 9)),
                                 KV("address", JStr("2 Elm St", 8))>>))>>))>>)
GarbageText == <<Tok("txt", "garbage", 33)>>
ArrayText == Dumps(JArr(<<Elem(JStr("x", 1)), Elem(JStr("y", 1))>>))

ProfileInputs == {Dumps(JObj(<<KV("summary", JStr("s", 20))>>)), GarbageText}
InventoryInputs ==
    {Dumps(InventoryOk), Take(Dumps(InventoryOk), TLen(Dumps(InventoryOk)) - 1),
     Take(Dumps(InventoryOk), 70), GarbageText, ArrayText}
TeamInputs ==
    {Dumps(FinalOk), Take(Dumps(FinalOk), 60),
     Take(Dumps(FinalNested), TLen(Dumps(FinalNested)) - 2),
     Dumps(JObj(<<KV("summary", JStr("s", 20))>>)), GarbageText,
     Commentary(Fenced(Dumps(FinalOk))), ArrayText, Dumps(JStr("text", 4)),
     Dumps(JObj(<<KV("property", JObj(<<KV("name", JStr("Elm Court", 9))>>))>>)),
     Dumps(JObj(<<KV("property", JStr("Elm Court", 9))>>))}
DraftInputs == {Dumps(JObj(<<KV("message", JStr("msg", 80))>>)), GarbageText}

NotExtracted == [value |-> JNone, attempts |-> <<>>]

\* if session: a session object is truthy, None is not
session_is_open(sess) == sess = "open"

\* the except branch of process_client
error_response(e) ==
    Dumps(JObj(<<KV("error", JStr("exception", TLen(e))),
                 KV("client_profile", JEmptyObj), KV("inventory_matches", JEmptyObj),
                 KV("team_analysis", JEmptyObj), KV("final_recommendation", JEmptyObj),
                 KV("message_draft", JEmptyObj)>>))

\* the database reads at the start of process_client: the session is
\* opened first (no_connection: get_db_connection raises and session stays
\* None), then the client row is read; an exception is turned into the
\* error response and the finally clause is entered
StartProcess(db) ==
    /\ app = "pipeline" /\ pc = "start"
    /\ session' = IF db = "no_connection" THEN "none" ELSE "open"
    /\ IF db = "ok"
       THEN pc' = "profile" /\ UNCHANGED lc_result
       ELSE /\ pc' = "closing"
            /\ lc_result' = error_response(ExcText(IF db = "no_client" THEN "no_client"
                                                   ELSE "db_error"))
    /\ UNCHANGED <<app, stage_raw, extracted, profile_analysis, inventory_matches,
                   final_analysis, selected_property>>
    /\ UNCHANGED <<agent_vars, service_vars>>

\* step 1: the profile agent answers
ProfileStep(raw) ==
    /\ app = "pipeline" /\ pc = "profile"
    /\ stage_raw' = raw
    /\ extracted' = extract_json_safely(raw, 16)
    /\ profile_analysis' = extracted'.value
    /\ pc' = "inventory"
    /\ UNCHANGED <<app, inventory_matches, final_analysis, selected_property, lc_result,
                   session>>
    /\ UNCHANGED <<agent_vars, service_vars>>

\* step 2: the inventory agent answers
InventoryStep(raw) ==
    /\ app = "pipeline" /\ pc = "inventory"
    /\ stage_raw' = raw
    /\ extracted' = extract_json_safely(raw, 17)
    /\ inventory_matches' = extracted'.value
    /\ pc' = "team"
    /\ UNCHANGED <<app, profile_analysis, final_analysis, selected_property, lc_result,
                   session>>
    /\ UNCHANGED <<agent_vars, service_vars>>

\* step 3: the team agent answers; the property is extracted and the data
\* for the message agent is put together
TeamStep(raw) ==
    /\ app = "pipeline" /\ pc = "team"
    /\ stage_raw' = raw
    /\ extracted' = extract_json_safely(raw, 14)
    /\ final_analysis' = extracted'.value
    /\ IF epi_raises(final_analysis', inventory_matches)
       THEN /\ selected_property' = JNone
            /\ lc_result' = error_response(ExcText("attribute_error"))
            /\ pc' = "closing"
       ELSE /\ selected_property' = extract_property_info(final_analysis', inventory_matches)
            /\ IF IsDict(inventory_matches)
               THEN pc' = "draft" /\ UNCHANGED lc_result
               ELSE /\ lc_result' = error_response(ExcText("attribute_error"))
                    /\ pc' = "closing"
    /\ UNCHANGED <<app, profile_analysis, inventory_matches, session>>
    /\ UNCHANGED <<agent_vars, service_vars>>

\* step 4: the message agent answers and the response is returned
DraftStep(raw) ==
    /\ app = "pipeline" /\ pc = "draft"
    /\ stage_raw' = raw
    /\ extracted' = extract_json_safely(raw, 13)
    /\ lc_result' =
          Dumps(JObj(<<KV("client_profile", profile_analysis),
                       KV("inventory_matches", inventory_matches),
                       KV("team_analysis", final_analysis),
                       KV("final_recommendation",
                          JObj(<<KV("selected_property", selected_property),
                                 KV("match_justification",
                                    Get(final_analysis, "match_justification", JEmptyStr)),
                                 KV("special_considerations",
                                    Get(final_analysis, "special_considerations", JEmptyStr))>>)),
                       KV("message_draft", extracted'.value)>>))
    /\ pc' = "closing"
    /\ UNCHANGED <<app, profile_analysis, inventory_matches, final_analysis,
                   selected_property, session>>
    /\ UNCHANGED <<agent_vars, service_vars>>

\* the finally clause of process_client: the session, if one was opened, is
\* closed outside any try block; when close() raises, the exception replaces
\* the value that was about to be returned
CloseSession(outcome) ==
    /\ app = "pipeline" /\ pc = "closing"
    /\ IF session_is_open(session)
       THEN IF outcome = "closed"
            THEN pc' = "done" /\ session' = "closed" /\ UNCHANGED lc_result
            ELSE pc' = "raised" /\ session' = "open" /\ lc_result' = <<>>
       ELSE pc' = "done" /\ UNCHANGED <<session, lc_result>>
    /\ UNCHANGED <<app, stage_raw, extracted, profile_analysis, inventory_matches,
                   final_analysis, selected_property>>
    /\ UNCHANGED <<agent_vars, service_vars>>

(***************************************************************************)
(* A matching request at the level of candidates: the data that reaches the *)
(* prompt and the record that comes back.  The request is served by the    *)
(* inventory agent (find_property_match) or by the pipeline                *)
(* (process_client); scoring, ranking and selection are the model's answer  *)
(* to the prompt, which both return without looking into it.               *)
(***************************************************************************)
\* the candidates the runs are checked on: monthly rent, total move-in
\* savings, the geocoder's answer for the address, and the miles from the
\* client when both addresses resolve
CandidateIds == {"oak", "elm", "pine"}
Candidate(c) ==
    CASE c = "oak" -> [rent |-> 2000, savings |-> 2000, geo |-> "found", miles |-> 2]
      [] c = "elm" -> [rent |-> 1800, savings |-> 500, geo |-> "none", miles |-> 0]
      [] c = "pine" -> [rent |-> 1833, savings |-> 0, geo |-> "raises", miles |-> 0]

\* an outgoing message is written as the candidate it offered, none when it
\* offered no property
NoOffer == "none"
Filler(n) == [i \in 1..n |-> NoOffer]

\* LIMIT of the query for outgoing messages in get_client_data
message_limit == 10

\* get_client_data: outgoing messages, newest first, at most message_limit
agent_previous_messages(rows) == SubSeq(rows, 1, Min(Len(rows), message_limit))

\* get_previous_messages of the pipeline: every row, and the empty list when
\* the query raises
get_previous_messages(rows, fetch) == IF fetch = "raises" THEN <<>> ELSE rows

\* format_inventory: a fixed sentence when there is no note, the notes
\* under a heading otherwise
format_inventory(inventory_list) ==
    IF inventory_list = <<>>
    THEN [text |-> "No inventory data available.", notes |-> <<>>]
    ELSE [text |-> "AVAILABLE PROPERTIES:", notes |-> inventory_list]

\* format_previous_messages: a fixed sentence when there is none, one line
\* per message otherwise
format_previous_messages(messages) ==
    IF messages = <<>>
    THEN [text |-> "No previous messages.", lines |-> <<>>]
    ELSE [text |-> "", lines |-> messages]

\* the result of a request that ended in its except clause
MatchError == [kind |-> "error", matches |-> <<>>, selected |-> "none"]

\* the formula of the prompt, (Monthly Rent x 12 - Total Move-in Savings) / 12,
\* as an exact fraction
net_effective_rent(monthly_rent, savings) ==
    [num |-> monthly_rent * 12 - savings, den |-> 12]
\* a fraction rounded to the nearest whole amount, as the examples of the
\* prompt show it
Displayed(q) == [num |-> (2 * q.num + q.den) \div (2 * q.den), den |-> 1]
Whole(amount) == [num |-> amount, den |-> 1]

\* calculate_neighborhood_proximity: both addresses are geocoded; the miles
\* between them when both resolve, infinity when one does not, and infinity
\* from the except clause when the geocoder raises
Infinity == [finite |-> FALSE, miles |-> 0]
calculate_neighborhood_proximity(client_geo, property_geo, miles) ==
    IF client_geo = "raises" \/ property_geo = "raises"
    THEN Infinity
    ELSE IF client_geo = "found" /\ property_geo = "found"
         THEN [finite |-> TRUE, miles |-> miles]
         ELSE Infinity

\* one entry of property_matches as the model writes it
Match(c, ranking, ner, score) ==
    [candidate |-> c, ranking |-> ranking, net_effective_rent |-> ner,
     proximity_score |-> score]
ExactRent(c) == net_effective_rent(Candidate(c).rent, Candidate(c).savings)

\* answers of the model the runs are checked on: lists that follow the
\* prompt to the letter, and lists that share a rank, round the rent, leave
\* a candidate out or score an address that does not resolve
MatchLists ==
    {<<>>,
     <<Match("oak", 1, ExactRent("oak"), 80)>>,
     <<Match("oak", 1, ExactRent("oak"), 80), Match("elm", 2, ExactRent("elm"), 0),
       Match("pine", 3, ExactRent("pine"), 0)>>,
     <<Match("oak", 1, ExactRent("oak"), 80), Match("elm", 2, ExactRent("elm"), 0)>>,
     <<Match("oak", 1, Displayed(ExactRent("oak")), 80),
       Match("elm", 1, Displayed(ExactRent("elm")), 40)>>,
     <<Match("elm", 5, Whole(Candidate("elm").rent), 50)>>}
ModelAnswers ==
    {[kind |-> "answer", matches |-> ms, selected |-> sel] :
        ms \in MatchLists, sel \in CandidateIds \cup {"none"}}

Inventories == {<<>>, <<"oak">>, <<"oak", "elm">>, <<"oak", "elm", "pine">>}
\* stores of outgoing messages: none, one offer, and an offer that is older
\* or newer than message_limit other messages
Stores ==
    {<<>>, <<"oak">>, Filler(message_limit) \o <<"oak">>,
     <<"elm">> \o Filler(message_limit)}

\* the record a run returns for the model's answer: the agent returns the
\* parsed record as it is; the pipeline passes the named property through
\* extract_property_info, which puts its default where none is named
returned_record(im, answer) ==
    IF im = "pipeline" /\ answer.selected = "none"
    THEN [answer EXCEPT !.selected = BristolStation.s]
    ELSE answer

\* the database reads of a request.  The agent reads everything inside
\* get_client_data, and an exception there ends the request in its except
\* clause.  The pipeline reads the inventory notes with
\* get_client_markdown_content, which raises when there is none, and the
\* outgoing messages with get_previous_messages.
MatchFetch(im, inv, rows, fetch) ==
    /\ app = "matching" /\ pc = "start"
    /\ impl' = im /\ inventory' = inv /\ outgoing' = rows
    /\ IF (im = "agent" /\ fetch = "raises") \/ (im = "pipeline" /\ inv = <<>>)
       THEN /\ previous_messages' = <<>>
            /\ match_results' = <<MatchError>>
            /\ pc' = "done"
       ELSE /\ previous_messages' = IF im = "agent" THEN agent_previous_messages(rows)
                                   ELSE get_previous_messages(rows, fetch)
            /\ match_results' = <<>>
            /\ pc' = "first"
    /\ UNCHANGED <<app, agent_vars, pipeline_vars, tool_vars, team_vars, query_vars>>

\* the prompt is filled with the formatted data, the model answers, and the
\* record is returned; the request is then served a second time on the same
\* data
MatchAnswer(answer) ==
    /\ app = "matching" /\ pc \in {"first", "second"}
    /\ match_results' = Append(match_results, returned_record(impl, answer))
    /\ pc' = IF pc = "first" THEN "second" ELSE "done"
    /\ UNCHANGED <<app, agent_vars, pipeline_vars, tool_vars, team_vars, query_vars, impl,
                   inventory, outgoing, previous_messages>>

(***************************************************************************)
(* Requests to the agent team (agno_multimodel.process_client).  Each      *)
(* request replaces builtins.print by a function that records what is      *)
(* printed, awaits the team, picks the coordinator's line from its record  *)
(* and puts back the function it found on entry.  Requests served by one   *)
(* event loop interleave at the await.                                     *)
(***************************************************************************)
TeamRequests == {"first", "second"}

\* lines the team prints for one request
MaxPrints == 2

\* the functions that record a line printed now: custom_print of the
\* request whose function is installed, and the function that one saved as
\* original_print, which it calls in turn.  (With each request served once
\* the chain of saved functions has at most two links.)
Recording(installed, saved) ==
    IF installed = "print"
    THEN {}
    ELSE {installed} \cup (IF saved[installed] = "print" THEN {} ELSE {saved[installed]})

\* print(...) called on behalf of request r while the function installed
\* is the given one: what each request has recorded afterwards
custom_print(installed, r, kind) ==
    [q \in TeamRequests |->
        IF q \in Recording(installed, original_print)
        THEN Append(team_responses[q], [owner |-> r, kind |-> kind])
        ELSE team_responses[q]]

\* the scan of the record from its end for the coordinator's response: the
\* request whose response is found first, none when there is no response
last_response(responses) ==
    LET found == {i \in 1..Len(responses) : responses[i].kind = "response"} IN
    IF found = {} THEN "none"
    ELSE responses[CHOOSE i \in found : \A j \in found : j <= i].owner

\* lines 517-529: the current print is saved and custom_print installed
TeamEnter(r) ==
    /\ app = "team" /\ team_pc[r] = "idle"
    /\ original_print' = [original_print EXCEPT ![r] = builtins_print]
    /\ team_responses' = [team_responses EXCEPT ![r] = <<>>]
    /\ builtins_print' = r
    /\ team_pc' = [team_pc EXCEPT ![r] = "running"]
    /\ UNCHANGED <<app, pc, agent_vars, pipeline_vars, tool_vars, matching_vars, query_vars,
                   team_message>>

\* while the request awaits aprint_response the team prints a response
TeamPrint(r) ==
    /\ app = "team" /\ team_pc[r] = "running"
    /\ \A q \in TeamRequests :
          Cardinality({i \in 1..Len(team_responses[q]) : team_responses[q][i].owner = r})
             < MaxPrints
    /\ team_responses' = custom_print(builtins_print, r, "response")
    /\ UNCHANGED <<app, pc, agent_vars, pipeline_vars, tool_vars, matching_vars, query_vars,
                   team_pc, builtins_print, original_print, team_message>>

\* lines 539-563: the await is over; the request picks its message and
\* prints the final message, and the finally clause installs the function
\* saved on entry.  When the await has raised, the function is put back
\* first and the except clause prints the error.
TeamFinish(r, outcome) ==
    /\ app = "team" /\ team_pc[r] = "running"
    /\ IF outcome = "raises"
       THEN /\ team_responses' = custom_print(original_print[r], r, "error")
            /\ UNCHANGED team_message
       ELSE /\ team_message' = [team_message EXCEPT ![r] = last_response(team_responses[r])]
            /\ team_responses' = custom_print(builtins_print, r, "final")
    /\ builtins_print' = original_print[r]
    /\ team_pc' = [team_pc EXCEPT ![r] = IF outcome = "raises" THEN "raised" ELSE "done"]
    /\ UNCHANGED <<app, pc, agent_vars, pipeline_vars, tool_vars, matching_vars, query_vars,
                   original_print>>

(***************************************************************************)
(* A call of process_query (agents.py): the body of a persona agent or of  *)
(* MainAgent, run by the retry wrapper that decorates it.                  *)
(***************************************************************************)
\* @retry(stop=stop_after_attempt(3), wait=wait_fixed(2))
stop_after_attempt == 3

QueryAgents == {"persona", "main"}
InvocationOutcomes == {"content", "raises"}

\* the body of process_query for one run: what it returns, whether an
\* exception leaves it, and the model invocations that raised.  A persona
\* agent invokes the model once; MainAgent runs its agent and hands the
\* answer to the formatter agent, whose own process_query returns a string
\* whatever happens.  Every statement of the body is inside try/except
\* Exception, and the except clause returns the error as a string.
process_query(agent, empty, first, second) ==
    IF empty
    THEN [value |-> "error_empty", raised |-> FALSE, failed |-> 0]
    ELSE IF first = "raises"
         THEN [value |-> "error_report", raised |-> FALSE, failed |-> 1]
         ELSE IF agent = "main" /\ second = "raises"
              THEN [value |-> "error_report", raised |-> FALSE, failed |-> 1]
              ELSE [value |-> "content", raised |-> FALSE, failed |-> 0]

\* the caller calls the decorated function
QueryCall(agent, empty) ==
    /\ app = "query" /\ pc = "start"
    /\ query_agent' = agent
    /\ query_empty' = empty
    /\ pc' = "attempt"
    /\ UNCHANGED <<app, agent_vars, pipeline_vars, tool_vars, matching_vars, team_vars,
                   attempt_number, failed_invocations, query_result>>

\* one round of the retry wrapper: the body is run; a returned value goes to
\* the caller; an exception leads to another round after the fixed wait, or
\* to a RetryError once stop_after_attempt rounds have been made
QueryAttempt(first, second) ==
    /\ app = "query" /\ pc = "attempt"
    /\ LET out == process_query(query_agent, query_empty, first, second) IN
       /\ attempt_number' = attempt_number + 1
       /\ failed_invocations' = failed_invocations + out.failed
       /\ IF ~out.raised
          THEN query_result' = out.value /\ pc' = "done"
          ELSE IF attempt_number' >= stop_after_attempt
               THEN query_result' = "retry_error" /\ pc' = "raised"
               ELSE UNCHANGED query_result /\ pc' = "attempt"
    /\ UNCHANGED <<app, agent_vars, pipeline_vars, tool_vars, matching_vars, team_vars,
                   query_agent, query_empty>>

(***************************************************************************)
(* parse_json_response (streamlit_app.py): the text process_client         *)
(* returned is turned into the mapping the pages display.                  *)
(***************************************************************************)
\* Python None handed over in place of a text
NoText == <<Tok("none", "None", 0)>>
\* a terminal colour code
Ansi == Tok("ansi", "esc", 4)

required_fields == <<"client_profile", "inventory_matches", "team_analysis",
                     "final_recommendation", "message_draft">>

\* Faulty variant of parse_failure, against which the completeness of the
\* returned mapping is tested: the error alone.
FailureWithoutFields(e) == JObj(<<KV("error", JStr(e, 20))>>)

\* the mapping returned on each failure: the error and five empty mappings
parse_failure(e) ==
    JObj(<<KV("error", JStr(e, 20))>>
         \o [i \in 1..Len(required_fields) |-> KV(required_fields[i], JEmptyObj)])

\* re.sub of the escape pattern; applied to None it raises TypeError
clean_ansi_codes(text) == SelectSeq(text, LAMBDA tk : tk.t # "ansi")

\* not clean_text or clean_text.isspace()
IsBlank(text) == \A i \in 1..Len(text) : IsSpace(text[i])

\* lines 57-60: every required field that is absent is set to {}
RECURSIVE fill_required(_, _)
fill_required(d, i) ==
    IF i > Len(required_fields) THEN d
    ELSE fill_required(IF HasKey(d, required_fields[i]) THEN d
                       ELSE SetKey(d, required_fields[i], JEmptyObj), i + 1)

\* re.search of the sms pattern in a raw model output.  Content named
\* raw_with_sms is a raw output that holds "sms": "..." with a text of ten
\* characters.
sms_search(raw_data) ==
    IF raw_data.s = "raw_with_sms"
    THEN [found |-> TRUE, v |-> JStr("sms_text", 10)]
    ELSE [found |-> FALSE, v |-> JNone]

\* lines 63-78 for one field: the error of a field that is a mapping with an
\* error is copied to <field>_error, and the sms text found in the raw
\* response of the message draft is stored in the draft
special_field(d, field) ==
    LET v == Lookup(d, field) IN
    IF ~(IsDict(v) /\ HasKey(v, "error")) THEN d
    ELSE LET d1 == SetKey(d, field \o "_error", Lookup(v, "error")) IN
         IF ~HasKey(v, "raw_response") THEN d1
         ELSE IF field = "final_recommendation"
                 /\ IsDict(Get(v, "selected_property", JNone))
              THEN d1
              ELSE IF field = "message_draft" /\ IsStrV(Lookup(v, "raw_response"))
                      /\ sms_search(Lookup(v, "raw_response")).found
                   THEN SetKey(d1, field,
                               SetKey(v, "sms", sms_search(Lookup(v, "raw_response")).v))
                   ELSE d1

RECURSIVE special_handling(_, _)
special_handling(d, i) ==
    IF i > Len(required_fields) THEN d
    ELSE special_handling(special_field(d, required_fields[i]), i + 1)

\* A value that is no mapping makes the loops raise TypeError (item
\* assignment or string index on a list, a string, a number or None).
parse_json_response(text) ==
    IF text = NoText THEN parse_failure("Error processing response")
    ELSE IF IsBlank(clean_ansi_codes(text)) THEN parse_failure("Empty response received")
    ELSE IF ~json_loads(clean_ansi_codes(text)).ok THEN parse_failure("Invalid JSON response")
    ELSE IF ~IsDict(json_loads(clean_ansi_codes(text)).v)
         THEN parse_failure("Error processing response")
         ELSE special_handling(fill_required(json_loads(clean_ansi_codes(text)).v, 1), 1)

\* responses of process_client and other texts the page may be given
FieldError(raw) == JObj(<<KV("error", JStr("parse_error", 30)), KV("raw_response", raw)>>)
FullResponse(draft) ==
    JObj(<<KV("client_profile", JObj(<<KV("name", JStr("name", 6))>>)),
           KV("inventory_matches", JObj(<<KV("best_matches", JEmptyArr)>>)),
           KV("team_analysis", JStr("analysis", 30)),
           KV("final_recommendation",
              JObj(<<KV("error", JStr("parse_error", 30)),
                     KV("raw_response", JStr("raw_with_sms", 40)),
                     KV("selected_property", JObj(<<KV("property", BristolStation)>>))>>)),
           KV("message_draft", draft)>>)
MessageDrafts ==
    {JObj(<<KV("sms", JStr("hello", 5))>>),
     FieldError(JStr("raw", 40)),
     FieldError(JStr("raw_with_sms", 40)),
     FieldError(JObj(<<KV("sms", JStr("hello", 5))>>)),
     SetKey(FieldError(JStr("raw_with_sms", 40)), "sms", JStr("hello", 5)),
     JObj(<<KV("error", JStr("parse_error", 30))>>),
     JStr("draft", 12)}
ResponseObjects ==
    {FullResponse(d) : d \in MessageDrafts}
    \cup {JEmptyObj,
          JObj(<<KV("client_profile", FieldError(JStr("raw_with_sms", 40)))>>),
          JObj(<<KV("message_draft", FieldError(JStr("raw_with_sms", 40))),
                 KV("note", JStr("note", 4))>>),
          JObj(<<KV("final_recommendation", FieldError(JStr("raw", 40)))>>)}
ResponseTexts ==
    {NoText, <<>>, <<Sp, Nl>>, <<Ansi>>, <<Ansi, Sp>>, <<Tok("txt", "garbage", 40)>>}
    \cup {Dumps(v) : v \in ResponseObjects \cup UnexpectedShapes}
    \cup {<<Ansi>> \o Dumps(v) \o <<Ansi, Nl>> : v \in ResponseObjects}
    \cup {Take(Dumps(FullResponse(JStr("draft", 12))), 50),
          error_response(<<Tok("txt", "e", 10)>>)}

\* the page hands the text to parse_json_response
ParseResponse(text) ==
    /\ app = "ui" /\ pc = "start"
    /\ response_text' = text
    /\ response_data' = parse_json_response(text)
    /\ pc' = "done"
    /\ UNCHANGED <<app, agent_vars, pipeline_vars, matching_vars, team_vars, query_vars,
                   sms_vars, zip_vars, notes_vars, fetch_vars>>

(***************************************************************************)
(* MainAgent.process_query (agents.py): the coordinator run, the SMS       *)
(* formatter and the check for hallucinated examples.                      *)
(***************************************************************************)
\* A text: what it is, whether it has blanks around it, and whether it
\* contains the markers Example 1 and Structured Agent Response.
Reply(kind, padded, example, structured) ==
    [kind |-> kind, padded |-> padded, example |-> example, structured |-> structured]
NoReply == Reply("none", FALSE, FALSE, FALSE)

\* tool calls the coordinator makes to the formatter in one run
MaxToolCalls == 2

\* str.strip(): the markers have no blank at either end, so none is lost
strip(text) == [text EXCEPT !.padded = FALSE]

\* the fixed texts that process_query returns
chat_history_required == Reply("chat_history_required", FALSE, FALSE, FALSE)
clarification_message == Reply("clarification", FALSE, FALSE, FALSE)
\* f"Error in MainAgent: {str(e)}": the text of the exception follows the prefix
main_agent_error(e) == [e EXCEPT !.kind = "main_agent_error", !.padded = FALSE]

\* Faulty variant of remove_hallucinated, against which the filter is
\* tested: the formatter's output is returned as it is.
ReturnUnfiltered(text) == strip(text)

\* lines 895-900: the check for the two markers
remove_hallucinated(text) ==
    IF text.example \/ text.structured THEN clarification_message ELSE strip(text)

\* what the formatter, or an exception, may say
FormatterOutputs ==
    {Reply(kind, padded, example, structured) :
        kind \in {"sms", "formatter_error"}, padded \in BOOLEAN,
        example \in BOOLEAN, structured \in BOOLEAN}
ExceptionTexts ==
    {Reply("exception", FALSE, example, structured) :
        example \in BOOLEAN, structured \in BOOLEAN}

\* process_query is called; without a chat history it returns at once
MainCall(has_history) ==
    /\ app = "sms" /\ pc = "start"
    /\ IF has_history
       THEN pc' = "running" /\ UNCHANGED main_result
       ELSE pc' = "done" /\ main_result' = chat_history_required
    /\ UNCHANGED <<app, agent_vars, pipeline_vars, matching_vars, team_vars, query_vars,
                   zip_vars, notes_vars, fetch_vars, ui_vars, formatter_calls, sms_final>>

\* during agent.run the coordinator calls its SMSFormatterAgent tool, whose
\* function is the formatter's process_query
CoordinatorUsesFormatter ==
    /\ app = "sms" /\ pc = "running"
    /\ Len(formatter_calls) < MaxToolCalls
    /\ formatter_calls' = Append(formatter_calls, "tool")
    /\ UNCHANGED <<app, pc, agent_vars, pipeline_vars, matching_vars, team_vars,
                   query_vars, zip_vars, notes_vars, fetch_vars, ui_vars, sms_final, main_result>>

\* agent.run raises: the except clause returns the error text
CoordinatorRaises(e) ==
    /\ app = "sms" /\ pc = "running"
    /\ main_result' = main_agent_error(e)
    /\ pc' = "done"
    /\ UNCHANGED <<app, agent_vars, pipeline_vars, matching_vars, team_vars, query_vars,
                   zip_vars, notes_vars, fetch_vars, ui_vars, formatter_calls, sms_final>>

\* agent.run returns; the formatter is called with its answer and what it
\* returns is checked for the markers
CoordinatorReturns(text) ==
    /\ app = "sms" /\ pc = "running"
    /\ formatter_calls' = Append(formatter_calls, "final")
    /\ sms_final' = text
    /\ main_result' = remove_hallucinated(text)
    /\ pc' = "done"
    /\ UNCHANGED <<app, agent_vars, pipeline_vars, matching_vars, team_vars, query_vars,
                   zip_vars, notes_vars, fetch_vars, ui_vars>>

(***************************************************************************)
(* get_neighborhood_zip_codes_from_ai (sanity_check_agent.py)              *)
(***************************************************************************)
\* A model response: whether its content is a string, and the content as
\* its comma-separated segments, each a sequence of words.  A word is a
\* five-digit code, a digit run of another length, or other text.
ZipResponse(is_text, segments) == [is_text |-> is_text, segments |-> segments]
FiveDigits == {"60601", "60602"}
ZipRaises == ZipResponse(FALSE, <<<<"raises">>>>)

\* the first parse: the segments that, stripped, are five digits
RECURSIVE comma_codes(_)
comma_codes(segments) ==
    IF segments = <<>> THEN <<>>
    ELSE (IF Len(Head(segments)) = 1 /\ Head(segments)[1] \in FiveDigits
          THEN <<Head(segments)[1]>> ELSE <<>>) \o comma_codes(Tail(segments))

\* re.findall of five digits between word boundaries
RECURSIVE findall_codes(_)
findall_codes(segments) ==
    IF segments = <<>> THEN <<>>
    ELSE SelectSeq(Head(segments), LAMBDA w : w \in FiveDigits)
         \o findall_codes(Tail(segments))

ZipResponses ==
    {ZipRaises, ZipResponse(FALSE, <<>>)}
    \cup {ZipResponse(TRUE, segs) :
            segs \in {<<<<"60601">>, <<"60602">>>>,
                      <<<<"60601">>>>,
                      <<<<"unknown">>>>,
                      <<<<"Zips:", "60601">>, <<"60602">>>>,
                      <<<<"Zips:", "60601", "and", "60602">>>>,
                      <<<<"6060">>, <<"606012">>>>,
                      <<>>}}

\* the first call of the model and the parse of its response.  The name re
\* is local to the function, because of the import in the handler of the
\* inner try, and is bound only when that handler has run; a content that
\* is no string makes the handler run and findall raise in it.
ZipFirstResponse(r) ==
    /\ app = "zip" /\ pc = "start"
    /\ zip_responses' = <<r>>
    /\ IF r = ZipRaises
       THEN zip_codes' = <<>> /\ pc' = "done" /\ UNCHANGED re_bound
       ELSE IF ~r.is_text
            THEN zip_codes' = <<>> /\ pc' = "done" /\ re_bound' = TRUE
            ELSE /\ zip_codes' = comma_codes(r.segments)
                 /\ pc' = IF comma_codes(r.segments) = <<>> THEN "second" ELSE "done"
                 /\ UNCHANGED re_bound
    /\ UNCHANGED <<app, agent_vars, pipeline_vars, matching_vars, team_vars, query_vars,
                   fetch_vars, notes_vars, ui_vars, sms_vars>>

\* no code was found: the model is asked again and findall is applied to
\* its response; an unbound re raises UnboundLocalError, and the handler of
\* the function returns the empty list
ZipSecondResponse(r) ==
    /\ app = "zip" /\ pc = "second"
    /\ zip_responses' = Append(zip_responses, r)
    /\ zip_codes' = IF r = ZipRaises \/ ~re_bound \/ ~r.is_text THEN <<>>
                    ELSE findall_codes(r.segments)
    /\ pc' = "done"
    /\ UNCHANGED <<app, agent_vars, pipeline_vars, matching_vars, team_vars, query_vars,
                   fetch_vars, notes_vars, ui_vars, sms_vars, re_bound>>

(***************************************************************************)
(* The data-fetch operations and their database sessions                   *)
(***************************************************************************)
\* get_client_data (Inventory_agent_lang.py), get_client_requirements
\* (inventory_agent.py), get_client_markdown_content and
\* get_previous_messages (langcahin.py)
FetchOperations == {"get_client_data", "get_client_requirements",
                    "get_client_markdown_content", "get_previous_messages"}
QueryOutcomes == {"rows", "no_row", "query_error"}

\* The exception that reaches the caller when the session cannot be opened.
\* get_client_data opens the session before its try statement.
\* get_client_requirements opens it inside, with no earlier binding of the
\* name session, so session.close() in the finally clause raises
\* UnboundLocalError in place of the error being re-raised.
\* get_client_markdown_content binds session to None first and closes only
\* a session that exists.  get_previous_messages returns [] from its handler.
open_failure(op) ==
    CASE op = "get_client_data" -> "connection_error"
      [] op = "get_client_requirements" -> "UnboundLocalError"
      [] op = "get_client_markdown_content" -> "connection_error"
      [] op = "get_previous_messages" -> "none"

\* the exception that reaches the caller after the query
query_failure(op, outcome) ==
    IF op = "get_previous_messages" THEN "none"
    ELSE CASE outcome = "rows" -> "none"
           [] outcome = "no_row" -> "ValueError"
           [] outcome = "query_error" -> "query_error"

\* the operation is called and opens its session
FetchOpen(op, connects) ==
    /\ app = "fetch" /\ pc = "start"
    /\ fetch_op' = op
    /\ IF connects
       THEN fetch_session' = "open" /\ pc' = "querying" /\ UNCHANGED fetch_error
       ELSE fetch_session' = "failed" /\ pc' = "done" /\ fetch_error' = open_failure(op)
    /\ UNCHANGED <<app, agent_vars, pipeline_vars, matching_vars, team_vars, query_vars,
                   ui_vars, sms_vars, zip_vars, notes_vars>>

\* the query is run and the operation returns or raises; the finally
\* clause closes the session
FetchQuery(outcome) ==
    /\ app = "fetch" /\ pc = "querying"
    /\ fetch_error' = query_failure(fetch_op, outcome)
    /\ fetch_session' = "closed"
    /\ pc' = "done"
    /\ UNCHANGED <<app, agent_vars, pipeline_vars, matching_vars, team_vars, query_vars,
                   ui_vars, sms_vars, zip_vars, notes_vars, fetch_op>>

(***************************************************************************)
(* get_client_markdown_content (langcahin.py, sanity_check_agent.py): the  *)
(* merge of the inventory notes of a client.                               *)
(***************************************************************************)
\* notes a client has
MaxNotes == 3

\* A note body: its text without the blanks around it, and whether it has
\* such blanks.  The empty text stands for a body of blanks only.
Body(text, padded) == [text |-> text, padded |-> padded]
NoteBodies == {Body("A", FALSE), Body("A", TRUE), Body("B", FALSE), Body("B", TRUE),
               Body("", FALSE), Body("", TRUE)}
NoteResults == UNION {[1..n -> NoteBodies] : n \in 0..MaxNotes}

\* result[0].strip()
stripped(body) == body.text

\* the separator of the join: two newlines
BlankLine == "\n\n"

\* Faulty variant of is_new_content, against which the merge is tested:
\* repeated bodies are kept.
AnyContent(content, seen_content) == content # ""

\* if content and content not in seen_content
is_new_content(content, seen_content) == content # "" /\ content \notin seen_content

\* the loop over the results: all_content
RECURSIVE all_content(_, _)
all_content(results, seen_content) ==
    IF results = <<>> THEN <<>>
    ELSE IF is_new_content(stripped(Head(results)), seen_content)
         THEN <<stripped(Head(results))>>
              \o all_content(Tail(results), seen_content \cup {stripped(Head(results))})
         ELSE all_content(Tail(results), seen_content)

\* "\n\n".join(parts): the parts with the separator between them
RECURSIVE join_blank_line(_)
join_blank_line(parts) ==
    IF Len(parts) <= 1 THEN parts
    ELSE <<Head(parts), BlankLine>> \o join_blank_line(Tail(parts))

\* the function from the query to its return or raise
MergeNotes(results) ==
    /\ app = "notes" /\ pc = "start"
    /\ note_rows' = results
    /\ IF results = <<>> \/ all_content(results, {}) = <<>>
       THEN notes_error' = "ValueError" /\ UNCHANGED notes_content
       ELSE notes_content' = join_blank_line(all_content(results, {}))
            /\ UNCHANGED notes_error
    /\ pc' = "done"
    /\ UNCHANGED <<app, agent_vars, pipeline_vars, matching_vars, team_vars, query_vars,
                   ui_vars, sms_vars, zip_vars, fetch_vars>>

Init ==
    /\ app \in {"agent", "pipeline", "matching", "team", "query", "ui", "sms", "zip", "fetch", "notes"}
    /\ pc = "start"
    /\ send_to_discord \in (IF app = "agent" THEN BOOLEAN ELSE {FALSE})
    /\ verbose \in (IF app = "agent" THEN BOOLEAN ELSE {FALSE})
    /\ silent_mode \in (IF app = "agent" THEN BOOLEAN ELSE {FALSE})
    /\ verbose_logs = verbose_log(<<>>, verbose, ConstructLogs)
    /\ response = <<>>
    /\ attempts = <<>>
    /\ path = "none"
    /\ result = <<>>
    /\ reports = NoReports
    /\ queue = <<>>
    /\ handed = <<>>
    /\ inflight = <<>>
    /\ posted = <<>>
    /\ failures = 0
    /\ stage_raw = <<>>
    /\ extracted = NotExtracted
    /\ profile_analysis = JNone
    /\ inventory_matches = JNone
    /\ final_analysis = JNone
    /\ selected_property = JNone
    /\ lc_result = <<>>
    /\ session = "none"
    /\ impl = "agent"
    /\ inventory = <<>>
    /\ outgoing = <<>>
    /\ previous_messages = <<>>
    /\ match_results = <<>>
    /\ team_pc = [r \in TeamRequests |-> "idle"]
    /\ builtins_print = "print"
    /\ original_print = [r \in TeamRequests |-> "print"]
    /\ team_responses = [r \in TeamRequests |-> <<>>]
    /\ team_message = [r \in TeamRequests |-> "none"]
    /\ query_agent = "persona"
    /\ query_empty = FALSE
    /\ attempt_number = 0
    /\ failed_invocations = 0
    /\ query_result = "none"
    /\ response_text = <<>>
    /\ response_data = JNone
    /\ formatter_calls = <<>>
    /\ sms_final = NoReply
    /\ main_result = NoReply
    /\ zip_responses = <<>>
    /\ re_bound = FALSE
    /\ zip_codes = <<>>
    /\ fetch_op = "none"
    /\ fetch_session = "none"
    /\ fetch_error = "none"
    /\ note_rows = <<>>
    /\ notes_content = <<>>
    /\ notes_error = "none"

Next ==
    \/ \E db \in {"ok", "no_client", "error"} : GetClientData(db)
    \/ \E raw \in RawInputs : ChainRespond(raw)
    \/ ChainRaise
    \/ HandOver
    \/ \E outcome \in TransportOutcomes : TransportRespond(outcome)
    \/ Return
    \/ \E db \in {"ok", "no_client", "error", "no_connection"} : StartProcess(db)
    \/ \E raw \in ProfileInputs : ProfileStep(raw)
    \/ \E raw \in InventoryInputs : InventoryStep(raw)
    \/ \E raw \in TeamInputs : TeamStep(raw)
    \/ \E raw \in DraftInputs : DraftStep(raw)
    \/ \E outcome \in {"closed", "raises"} : CloseSession(outcome)
    \/ \E im \in {"agent", "pipeline"}, inv \in Inventories, rows \in Stores,
          fetch \in {"ok", "raises"} : MatchFetch(im, inv, rows, fetch)
    \/ \E answer \in ModelAnswers : MatchAnswer(answer)
    \/ \E r \in TeamRequests : TeamEnter(r)
    \/ \E r \in TeamRequests : TeamPrint(r)
    \/ \E r \in TeamRequests, outcome \in {"returns", "raises"} : TeamFinish(r, outcome)
    \/ \E agent \in QueryAgents, empty \in BOOLEAN : QueryCall(agent, empty)
    \/ \E first, second \in InvocationOutcomes : QueryAttempt(first, second)
    \/ \E text \in ResponseTexts : ParseResponse(text)
    \/ \E has_history \in BOOLEAN : MainCall(has_history)
    \/ CoordinatorUsesFormatter
    \/ \E e \in ExceptionTexts : CoordinatorRaises(e)
    \/ \E text \in FormatterOutputs : CoordinatorReturns(text)
    \/ \E r \in ZipResponses : ZipFirstResponse(r)
    \/ \E r \in ZipResponses : ZipSecondResponse(r)
    \/ \E op \in FetchOperations, connects \in BOOLEAN : FetchOpen(op, connects)
    \/ \E outcome \in QueryOutcomes : FetchQuery(outcome)
    \/ \E results \in NoteResults : MergeNotes(results)

Spec == Init /\ [][Next]_vars

(***************************************************************************)
(* Properties of the bounded dispatch                                      *)
(***************************************************************************)
DispatcherStages == {"main", "technical", "json"}

\* the text as runs of like characters, each with its offset: two token
\* sequences have the same runs exactly when they spell the same text
Runs(x0) ==
    LET x == SelectSeq(x0, LAMBDA tk : tk.n > 0)
        B == {i \in 1..Len(x) : i = 1 \/ x[i].s # x[i - 1].s}
        last(i) == IF {j \in B : j > i} = {} THEN Len(x)
                   ELSE MinOf({j \in B : j > i}) - 1
    IN {[at |-> LenRange(x, 1, i - 1), s |-> x[i].s, n |-> LenRange(x, i, last(i))] :
           i \in B}

\* a posted payload without the truncation notice the send function appends
WithoutNotice(content) ==
    IF Len(content) >= 2 /\ content[Len(content)].s = "truncated"
    THEN SubSeq(content, 1, Len(content) - 2) ELSE content

\* the payloads of a stage as posted first (not the simplified re-post
\* after a 400), joined in send order
PrimaryPosts(stage) ==
    SelectSeq(posted, LAMBDA p : ~p.fallback /\ handed[p.idx].stage = stage)
PostedText(stage) ==
    Concat([j \in 1..Len(PrimaryPosts(stage)) |-> WithoutNotice(PrimaryPosts(stage)[j].content)])

\* C1: Lossless dispatch.  When a dispatch of the three reports is over, the
\* payloads posted for the main report, joined in send order, spell the main
\* report that format_discord_message produced: no character lost, none
\* duplicated.
C1_MainReportLossless ==
    (app = "agent" /\ pc = "done" /\ reports # NoReports)
        => Runs(PostedText("main")) = Runs(reports.main)

\* C2: Chunk size bound.  Every text the dispatcher hands to the send
\* function has at most max_chunk_size characters.
C2_ChunkWithinLimit ==
    \A i \in 1..Len(handed) :
        handed[i].stage \in DispatcherStages => TLen(handed[i].text) <= max_chunk_size

(***************************************************************************)
(* Properties of the response normalization                                *)
(***************************************************************************)
\* the top-level fields of the record the agent is asked for
SchemaFields == {"thinking_process", "property_matches", "selected_property", "message"}

\* the record find_property_match returned, parsed back from its JSON text
Returned == json_loads(result)

FullyKeyed(r) == r.ok /\ IsDict(r.v) /\ \A k \in SchemaFields : HasKey(r.v, k)

\* C3: Normalization never throws.  A run of find_property_match that has
\* returned has returned a record (a JSON object), and whatever
\* extract_json_safely has returned for a model output is a record.  Raising
\* is no step of either run.
C3_AlwaysARecord ==
    /\ (app = "agent" /\ pc = "done") => (Returned.ok /\ IsDict(Returned.v))
    /\ extracted # NotExtracted => IsDict(extracted.value)

\* C4: Fully-keyed result.  The JSON that find_property_match returns has
\* the four expected top-level fields on every path.
C4_FullyKeyedResult ==
    (app = "agent" /\ pc = "done") => FullyKeyed(Returned)

\* the result came from a fallback path, not from a clean parse
Degraded == path # "strict"

\* C5: Truncation property.  For a model output that is a valid record cut
\* at any offset from 0 up to its full length, the returned result is
\* degraded and has every field of the schema.
C5_TruncationDegradedAndKeyed ==
    (app = "agent" /\ pc = "done" /\ attempts # <<>>
     /\ response \in Truncations(Dumps(MiniRecord)))
        => (Degraded /\ FullyKeyed(Returned))

\* whether the JSON value v holds the string p: as a string value anywhere
\* in it, or as a quoted string of a raw model output kept in it
RECURSIVE Mentions(_, _)
Mentions(v, p) ==
    \/ v = p
    \/ /\ v.ty = "str" /\ v.s = "raw_response"
       /\ \E i \in 1..Len(v.items) : v.items[i].t = "str" /\ v.items[i].s = p.s
    \/ /\ v.ty \in {"obj", "arr"}
       /\ \E i \in 1..Len(v.items) : Mentions(v.items[i].v, p)

\* C6: No fabricated recommendation.  The property that
\* extract_property_info yields is named in the final analysis or in the
\* inventory matches.
C6_PropertyFromInputs ==
    (app = "pipeline" /\ selected_property # JNone)
        => \/ Mentions(final_analysis, Lookup(selected_property, "property"))
           \/ Mentions(inventory_matches, Lookup(selected_property, "property"))

\* what the cascade of the design returns for a text whose strict parse
\* (strict_text) fails and whose first fenced block (in text) parses: the
\* content of the block
FencedStepDecides(strict_text, text) ==
    /\ ~json_loads(strict_text).ok
    /\ fenced_block(text).found
    /\ json_loads(fenced_block(text).group).ok
FencedValue(text) == json_loads(fenced_block(text).group).v

\* C7: Ordered fallback cascade.  When the strict parse fails and the first
\* fenced block of the output parses, the record returned is the content of
\* that block: the second step decides before the per-field regex is tried.
C7_FencedBeforeRegex ==
    /\ (app = "agent" /\ pc = "done" /\ attempts # <<>>
        /\ FencedStepDecides(clean_response(response), response))
          => (Returned.ok /\ Returned.v = FencedValue(response))
    /\ (extracted # NotExtracted /\ FencedStepDecides(stage_raw, stage_raw))
          => extracted.value = FencedValue(stage_raw)

\* C8: Total failure record.  When nothing was recovered, the record
\* returned holds the fixed fallback message and nothing else.
C8_TotalFailureIsFixedMessage ==
    /\ (app = "agent" /\ pc = "done" /\ path = "total")
          => result = Dumps(JObj(<<KV("message", error_msg)>>))
    /\ (extracted # NotExtracted
        /\ extracted.attempts[Len(extracted.attempts)] = "total_failure")
          => Keys(extracted.value) \subseteq {"message"}

(***************************************************************************)
(* Properties of the delivery                                              *)
(***************************************************************************)
\* the request posted first for chunk i has been resolved
Resolved(i) == \E j \in 1..Len(posted) : posted[j].idx = i /\ ~posted[j].fallback

\* at most the chunk handed over last is unresolved, it is the one in
\* flight, and requests are resolved in the order of their chunks
OneAtATime ==
    /\ Len(inflight) <= 1
    /\ inflight # <<>> => inflight[1].idx = Len(handed)
    /\ \A i \in 1..Len(handed) : (i < Len(handed) \/ inflight = <<>>) => Resolved(i)
    /\ \A j, k \in 1..Len(posted) : j < k => posted[j].idx <= posted[k].idx

\* a hand-over takes the first chunk not yet handed over, and happens only
\* when no request is in flight
InOrderStep ==
    handed' # handed =>
        /\ inflight = <<>>
        /\ queue # <<>>
        /\ handed' = Append(handed, Head(queue))

\* C9: In-order, one-at-a-time delivery.  Chunks are handed to the send
\* function in the order the dispatcher produced them, the next one only
\* after the request for the previous one has been resolved, and no two
\* requests are in flight together.
C9_InOrderOneAtATime == [](OneAtATime) /\ [][InOrderStep]_vars

C9_Witness ==
    /\ pc = "done" /\ Len(handed) >= 3
    /\ \A i \in 1..Len(handed) : Resolved(i)
    /\ \E j \in 1..Len(posted) : posted[j].outcome # "200"

\* the resolution of a request, whatever its outcome, leaves the dispatch
\* running and the chunks still to be handed over untouched, and a chunk
\* leaves the queue only by being handed to the send function
NoAbortStep ==
    /\ posted' # posted => (pc' = pc /\ queue' = queue)
    /\ (pc = "dispatching" /\ queue' # queue) =>
          (queue # <<>> /\ queue' = Tail(queue) /\ handed' = Append(handed, Head(queue)))

\* C10: Partial delivery.  A failed send (a status other than 200, or an
\* exception inside the transport call) does not abort the dispatch: the
\* chunks after it are still handed to the send function, and the run
\* returns only when none is left.
C10_FailureDoesNotAbort ==
    [](pc = "done" => (queue = <<>> /\ inflight = <<>>)) /\ [][NoAbortStep]_vars

C10_Witness ==
    /\ pc = "done"
    /\ \E j, k \in 1..Len(posted) :
          /\ posted[j].outcome \in {"500", "exception"}
          /\ posted[k].idx > posted[j].idx
          /\ posted[k].outcome = "200"
    /\ \E j \in 1..Len(posted) : posted[j].outcome = "400" /\ posted[j].idx < Len(handed)

\* the requests posted for chunk i that carry the chunk itself (not the
\* simplified notice posted after a 400)
SendAttempts(i) == {j \in 1..Len(posted) : posted[j].idx = i /\ ~posted[j].fallback}

\* a transient error: the transport raised, or answered with a server error
TransientOutcomes == {"500", "exception"}

\* C11: Bounded per-chunk retry.  A chunk whose send met a transient error
\* is sent again (the same chunk, a bounded number of times) before it is
\* given up: at the end of the dispatch every chunk whose request failed
\* transiently has been posted more than once.
C11_TransientChunkResent ==
    (app = "agent" /\ pc = "done") =>
        \A i \in 1..Len(handed) :
            (/\ handed[i].stage \in DispatcherStages
             /\ \E j \in SendAttempts(i) : posted[j].outcome \in TransientOutcomes)
                => Cardinality(SendAttempts(i)) > 1

(***************************************************************************)
(* Properties of process_client                                            *)
(***************************************************************************)
ResponseEntries ==
    {"client_profile", "inventory_matches", "team_analysis", "final_recommendation",
     "message_draft"}

\* what the caller gets when it decodes the returned string
Decoded == json_loads(lc_result)

\* the run left the try block through its except clause
Failed ==
    \/ profile_analysis = JNone
    \/ ~IsDict(inventory_matches)
    \/ ~IsDict(final_analysis)

\* the error object: an error entry and the five entries empty
IsErrorObject(v) ==
    /\ HasKey(v, "error")
    /\ \A k \in ResponseEntries : HasKey(v, k) /\ Lookup(v, k) = JEmptyObj

\* process_client has returned a string that decodes as a JSON object, the
\* error object when the run failed
ReturnsJsonObject ==
    /\ pc = "done"
    /\ Decoded.ok /\ IsDict(Decoded.v)
    /\ Failed => IsErrorObject(Decoded.v)

\* C20: process_client always returns a string that decodes as a JSON
\* object and never raises to its caller, whatever its collaborators do (the
\* database, the session, the four agents); when the run fails the object
\* has an error entry and empty client_profile, inventory_matches,
\* team_analysis, final_recommendation and message_draft entries.
C20_AlwaysReturnsJsonObject ==
    (app = "pipeline" /\ pc \in {"done", "raised"}) => ReturnsJsonObject

(***************************************************************************)
(* Properties of matching requests                                         *)
(***************************************************************************)
\* the candidates offered by a list of outgoing messages
Offers(rows) == {rows[i] : i \in 1..Len(rows)} \ {NoOffer}
SeqSet(q) == {q[i] : i \in 1..Len(q)}

\* the runs that returned the model's record
Answered == {r \in 1..Len(match_results) : match_results[r].kind = "answer"}
Scored(r) == {match_results[r].matches[i].candidate : i \in 1..Len(match_results[r].matches)}

\* the answer of run r keeps to what the prompt showed: it scores and
\* selects only properties of the inventory section that the section of
\* previous messages does not mention
FollowsPrompt(r) ==
    LET shown == Offers(format_previous_messages(previous_messages).lines)
        listed == SeqSet(format_inventory(inventory).notes)
    IN  /\ Scored(r) \subseteq listed \ shown
        /\ match_results[r].selected \in (listed \ shown) \cup {"none"}

\* C12: Previously-offered exclusion.  A candidate that an earlier outgoing
\* message offered is neither among the scored matches nor the selected
\* property, however many outgoing messages there are and also when reading
\* them failed.  Stated for the answers that keep to the prompt, so that it
\* speaks of the data the code hands to the model.
C12_OfferedNeverReturned ==
    app = "matching" =>
        \A r \in Answered :
            FollowsPrompt(r) =>
                /\ Scored(r) \cap Offers(outgoing) = {}
                /\ match_results[r].selected \notin Offers(outgoing)

\* C14: Ranking determinism.  Serving the request twice on the same
\* requirements, candidates and previous offers gives the same matches in
\* the same order, with the same values, and the same selected property.
C14_SameInputsSameRanking ==
    (app = "matching" /\ pc = "done" /\ Len(match_results) = 2) =>
        match_results[1] = match_results[2]

\* no candidate is left: the inventory is empty, or all of it was offered
NoCandidate == SeqSet(inventory) \subseteq Offers(outgoing)

\* C15: Empty candidate list.  With no candidate left the request ends with
\* a no-match value: no exception stands in for it and no property is
\* selected.  (An agent request whose database read failed is not counted
\* as an exception of the selection.)
C15_NoCandidateNoSelection ==
    (app = "matching" /\ NoCandidate) =>
        \A r \in 1..Len(match_results) :
            /\ impl = "pipeline" => match_results[r].kind = "answer"
            /\ match_results[r].selected = "none"

\* C16: Dense ranks.  In every returned list of N matches the ranks are
\* 1..N, each used once, and the list is in rank order.
C16_DenseRanks ==
    app = "matching" =>
        \A r \in Answered :
            LET ms == match_results[r].matches IN
            /\ {ms[i].ranking : i \in 1..Len(ms)} = 1..Len(ms)
            /\ \A i, j \in 1..Len(ms) : i < j => ms[i].ranking < ms[j].ranking

\* C17: Net effective rent.  For a 12-month lease it is (rent x 12 -
\* savings) / 12 without rounding: 2000 with one month free is 22000/12,
\* displayed 1833; 1800 with 500 off is 21100/12, displayed 1758; without
\* a special it equals the rent; and the value in every returned match is
\* this fraction for its candidate.
C17_NetEffectiveRentExact ==
    /\ net_effective_rent(2000, 2000) = [num |-> 22000, den |-> 12]
    /\ Displayed(net_effective_rent(2000, 2000)) = Whole(1833)
    /\ Displayed(net_effective_rent(1800, 500)) = Whole(1758)
    /\ \A rent \in {1800, 1833, 2000} :
          net_effective_rent(rent, 0).num = rent * net_effective_rent(rent, 0).den
    /\ app = "matching" =>
          \A r \in Answered :
              \A i \in 1..Len(match_results[r].matches) :
                  LET m == match_results[r].matches[i]
                      exact == ExactRent(m.candidate)
                  IN  m.net_effective_rent.num * exact.den
                         = exact.num * m.net_effective_rent.den

\* the candidates of the inventory whose distance cannot be resolved, for a
\* client whose own address resolves
Unresolved == {c \in SeqSet(inventory) : Candidate(c).geo # "found"}

\* C18: Unresolved distance.  When an address does not geocode, or the
\* geocoder raises, the distance is infinite and nothing is raised; the
\* candidate gets proximity score 0 and is still among the ranked matches
\* (unless it was offered before).
C18_UnresolvedScoresZero ==
    app = "matching" =>
        \A c \in Unresolved :
            /\ calculate_neighborhood_proximity("found", Candidate(c).geo, Candidate(c).miles)
                  = Infinity
            /\ c \notin Offers(outgoing) =>
                  \A r \in Answered :
                      \E i \in 1..Len(match_results[r].matches) :
                          /\ match_results[r].matches[i].candidate = c
                          /\ match_results[r].matches[i].proximity_score = 0

(***************************************************************************)
(* Properties of concurrent agent-team requests                            *)
(***************************************************************************)
TeamIdle == \A r \in TeamRequests : team_pc[r] # "running"

\* C13: a request handler keeps no mutable state shared between concurrent
\* requests: what one request records and picks as its message comes from
\* that request alone, and once no request is being served the process is
\* as it was before (the built-in print is installed again).
C13_RequestsIsolated ==
    app = "team" =>
        /\ \A r \in TeamRequests :
              /\ \A i \in 1..Len(team_responses[r]) : team_responses[r][i].owner = r
              /\ team_message[r] \in {r, "none"}
        /\ TeamIdle => builtins_print = "print"

(***************************************************************************)
(* Properties of process_query                                             *)
(***************************************************************************)
FailureReported == query_result \in {"error_report", "retry_error"}

\* C19: when the model invocation fails the invocation is attempted again:
\* a call makes at most stop_after_attempt attempts, and a failure is
\* reported to the caller only after stop_after_attempt attempts have failed.
C19_FailureReportedAfterRetries ==
    (app = "query" /\ pc \in {"done", "raised"}) =>
        /\ attempt_number <= stop_after_attempt
        /\ FailureReported =>
              /\ attempt_number = stop_after_attempt
              /\ failed_invocations = stop_after_attempt

(***************************************************************************)
(* Properties of the strict parse                                          *)
(***************************************************************************)
\* the valid record MiniRecord wrapped in a json-tagged fence or in a bare
\* fence
WrappedRecords == {Fenced(Dumps(MiniRecord)), BareFenced(Dumps(MiniRecord))}

\* C21: Strict parse.  For a model output that is a valid record surrounded
\* only by fence markers and whitespace, find_property_match returns the
\* parsed interior, nothing added, dropped or rewritten, and not flagged
\* degraded.
C21_WrappedRecordParsedStrictly ==
    (app = "agent" /\ pc = "done" /\ attempts # <<>> /\ response \in WrappedRecords)
        => (Returned.ok /\ Returned.v = MiniRecord /\ ~Degraded)

(***************************************************************************)
(* Properties of parse_json_response                                       *)
(***************************************************************************)
\* the input parsed, when it is valid JSON
ParsedText == json_loads(clean_ansi_codes(response_text))
ValidObject == response_text # NoText /\ ParsedText.ok /\ IsDict(ParsedText.v)

FiveKeys(d) == IsDict(d) /\ \A i \in 1..Len(required_fields) : HasKey(d, required_fields[i])

\* the value of a required field as the input gives it, {} when it is absent
Given(field) == Get(ParsedText.v, field, JEmptyObj)

\* the sms text of a message draft that is an error mapping with a raw
\* response in which an sms is found
DraftWithSms(v) ==
    IsDict(v) /\ HasKey(v, "error") /\ HasKey(v, "raw_response")
    /\ Lookup(v, "raw_response") = JStr("raw_with_sms", 40)

C23_PostedWithinLimit ==
    /\ posted # <<>> => TLen(posted[Len(posted)].content) <= discord_limit
    /\ \A j \in 1..Len(inflight) : TLen(inflight[j].content) <= discord_limit

\* a text longer than the limit was handed over and posted cut, with the
\* truncation notice
C23_Witness ==
    \E j \in 1..Len(posted) :
        /\ ~posted[j].fallback
        /\ TLen(handed[posted[j].idx].text) > discord_limit
        /\ TLen(posted[j].content) = truncate_at + 16

\* the requests posted for the i-th call of the send function
RequestsOf(i) == {j \in 1..Len(posted) : posted[j].idx = i}
FirstRequests(i) == {j \in RequestsOf(i) : ~posted[j].fallback}
SecondRequests(i) == {j \in RequestsOf(i) : posted[j].fallback}
SecondInFlight(i) == inflight # <<>> /\ inflight[1].idx = i /\ inflight[1].fallback

\* C24: one call of the send function issues at most two requests: the
\* first with the prepared content, and a second one, with the fixed
\* simplified content, if and only if the first response has status 400.
\* Nothing is requested after a 200, after another status or after an
\* exception, and when find_property_match has returned every call has
\* returned.
C24_AtMostTwoRequests ==
    /\ \A i \in 1..Len(handed) :
          /\ Cardinality(FirstRequests(i)) <= 1
          /\ Cardinality(SecondRequests(i)) <= 1
          /\ \A j \in FirstRequests(i) :
                (posted[j].outcome = "400")
                   <=> (SecondRequests(i) # {} \/ SecondInFlight(i))
          /\ \A j \in SecondRequests(i) :
                /\ posted[j].content = simple_content
                /\ \E k \in FirstRequests(i) : k < j
          /\ SecondInFlight(i) => FirstRequests(i) # {}
    /\ \A j \in 1..Len(inflight) :
          inflight[j].content = IF inflight[j].fallback THEN simple_content
                                ELSE prepare_content(handed[inflight[j].idx].text)
    /\ (app = "agent" /\ pc = "done") =>
          /\ inflight = <<>>
          /\ \A i \in 1..Len(handed) : FirstRequests(i) # {}

\* a call whose first response was 400 has made its second request, and a
\* call whose first request failed otherwise has made none
C24_Witness ==
    /\ \E i \in 1..Len(handed) :
          /\ \E j \in FirstRequests(i) : posted[j].outcome = "400"
          /\ SecondRequests(i) # {}
    /\ \E i \in 1..Len(handed) :
          /\ \E j \in FirstRequests(i) : posted[j].outcome \in {"500", "exception"}
          /\ SecondRequests(i) = {}
          /\ Len(handed) > i

(***************************************************************************)
(* Properties of the dispatch switch                                       *)
(***************************************************************************)
\* nothing has been handed to the send function
NothingSent == queue = <<>> /\ handed = <<>> /\ inflight = <<>> /\ posted = <<>>

\* the model output parses to a record and neither the analysis nor the
\* display of the thinking process raises: with dispatch disabled
\* find_property_match returns the record as parsed
ParsedResponse == json_loads(clean_response(response))
RecordWhenDisabled ==
    /\ ParsedResponse.ok /\ IsDict(ParsedResponse.v)
    /\ ~(verbose /\ analyze_raises(ParsedResponse.v))
    /\ ~(show_thinking /\ ~silent_mode /\ print_raises(ParsedResponse.v, verbose))

\* C25: Dispatch disabled.  An agent built with send_to_discord = False
\* issues no transport request on any path, and find_property_match returns
\* the same value with dispatch enabled as with dispatch disabled.
C25_DisabledSendsNothingSameValue ==
    /\ (app = "agent" /\ ~send_to_discord) => NothingSent
    /\ (app = "agent" /\ pc = "done" /\ attempts # <<>> /\ RecordWhenDisabled)
          => result = DumpsIndent(ParsedResponse.v, 0)

(***************************************************************************)
(* Properties of MainAgent.process_query                                   *)
(***************************************************************************)
HasMarker(text) == text.example \/ text.structured
FormatterAnswered == sms_final # NoReply
FinalCalls == {i \in 1..Len(formatter_calls) : formatter_calls[i] = "final"}

\* C26 as stated: the text MainAgent.process_query returns never contains
\* either marker; when the formatter's output contains one the fixed
\* clarification message is returned, otherwise the output stripped; the
\* formatter is invoked exactly once, and only after the coordinator run.
C26_FilteredFormatterOnce ==
    (app = "sms" /\ pc = "done") =>
        /\ ~HasMarker(main_result)
        /\ FormatterAnswered =>
              /\ main_result = IF HasMarker(sms_final) THEN clarification_message
                               ELSE strip(sms_final)
              /\ formatter_calls = <<"final">>
        /\ \A i \in 1..Len(formatter_calls) : formatter_calls[i] = "final"

\* C26, amended: when the coordinator run has completed the formatter is
\* invoked once with its answer, after whatever invocations the coordinator
\* made through its SMSFormatterAgent tool during the run; the text
\* returned then contains neither marker: it is the fixed clarification
\* message when the formatter's output contains one, and otherwise that
\* output stripped.  When the run raises, the formatter is not invoked
\* afterwards and the text of the exception is returned unfiltered.
C26_FilteredAfterCompletedRun ==
    (app = "sms" /\ pc = "done") =>
        /\ FormatterAnswered =>
              /\ ~HasMarker(main_result)
              /\ main_result = IF HasMarker(sms_final) THEN clarification_message
                               ELSE strip(sms_final)
              /\ FinalCalls = {Len(formatter_calls)}
        /\ ~FormatterAnswered =>
              /\ FinalCalls = {}
              /\ main_result.kind \in {"chat_history_required", "main_agent_error"}
              /\ main_result.kind = "chat_history_required" => formatter_calls = <<>>

\* the coordinator used the formatter during its run, the formatter's last
\* output held a marker and the clarification message was returned
C26_Witness ==
    /\ app = "sms" /\ pc = "done" /\ FormatterAnswered
    /\ HasMarker(sms_final) /\ main_result = clarification_message
    /\ Len(formatter_calls) > 1

(***************************************************************************)
(* Properties of get_neighborhood_zip_codes_from_ai                        *)
(***************************************************************************)
\* the response is a text in which no valid code is found by the first parse
NoCodeIn(r) == r.is_text /\ comma_codes(r.segments) = <<>>

\* C27: ZIP-code lookup, second attempt.  When the first response yields no
\* valid code the model is asked exactly once more and every five-digit
\* code of the second response is returned; there are at most two model
\* calls and only five-digit strings are returned.
C27_SecondResponseCodesReturned ==
    (app = "zip" /\ pc = "done") =>
        /\ Len(zip_responses) <= 2
        /\ \A i \in 1..Len(zip_codes) : zip_codes[i] \in FiveDigits
        /\ NoCodeIn(zip_responses[1]) =>
              /\ Len(zip_responses) = 2
              /\ zip_responses[2].is_text
                    => zip_codes = findall_codes(zip_responses[2].segments)

(***************************************************************************)
(* Properties of the print capture                                         *)
(***************************************************************************)
\* C28: Print capture is undone.  Once every invocation of process_client
\* that was started has returned or raised, the function installed as
\* builtins.print is the one that was installed before the first started.
C28_PrintRestored ==
    (app = "team" /\ \A r \in TeamRequests : team_pc[r] \in {"idle", "done", "raised"})
        => builtins_print = "print"

(***************************************************************************)
(* Properties of the data-fetch operations                                 *)
(***************************************************************************)
\* C29: Database sessions are released.  When a data-fetch operation has
\* returned or raised, the session it opened is closed; when the session
\* could not be opened, an error that reaches the caller is the connection
\* error (get_previous_messages reports the failure as an empty list).
C29_SessionsReleased ==
    (app = "fetch" /\ pc = "done") =>
        /\ fetch_session # "open"
        /\ fetch_session = "failed" => fetch_error \in {"connection_error", "none"}

(***************************************************************************)
(* Properties of the note merge                                            *)
(***************************************************************************)
\* the non-empty stripped bodies of the query result
Contents == {stripped(note_rows[i]) : i \in 1..Len(note_rows)} \ {""}
FirstOccurrence(content) ==
    CHOOSE i \in 1..Len(note_rows) :
        /\ stripped(note_rows[i]) = content
        /\ \A j \in 1..(i - 1) : stripped(note_rows[j]) # content
\* the parts of the returned text and the separators between them
Parts == {i \in 1..Len(notes_content) : i % 2 = 1}
Separators == {i \in 1..Len(notes_content) : i % 2 = 0}

====
